---- MODULE Spec2Model ----
(***************************************************************************)
(* Model of the bistroAR billing pipeline:                                 *)
(*   - the PDF/text record extractor (parse_transactions.py and its older  *)
(*     variant parseTransactions.py),                                      *)
(*   - the spreadsheet parser parse_transactions_excel.py,                 *)
(*   - the visit loader etl_load.py with its SQLite transaction,           *)
(*   - the reconciliation of reconcile.py against a monthly report,        *)
(*   - the journal parser txt_journal_parser.py,                           *)
(*   - the invoice delivery loop of deliver_invoices.py.                   *)
(* Text is modelled as TLA+ strings read character by character; Python    *)
(* floats are modelled as binary floating-point numbers of reduced width.  *)
(***************************************************************************)
EXTENDS Integers, Sequences, FiniteSets, Bags, TLC

(***************************************************************************)
(* Characters and strings                                                  *)
(***************************************************************************)
Digits == {"0", "1", "2", "3", "4", "5", "6", "7", "8", "9"}

\* The characters Python's str.strip() and the regex class \s remove or
\* match, restricted to the ones that occur in the modelled documents.
Whitespace == {" ", "\t"}

CharAt(s, i) == IF i >= 1 /\ i <= Len(s) THEN SubSeq(s, i, i) ELSE ""

Slice(s, i, j) == IF i > j THEN "" ELSE SubSeq(s, i, j)

\* Length of the longest run of characters of class cls starting at i.
RECURSIVE RunLen(_, _, _)
RunLen(s, i, cls) ==
    IF i <= Len(s) /\ CharAt(s, i) \in cls THEN 1 + RunLen(s, i + 1, cls) ELSE 0

\* Length of the longest run of characters of class cls ending at i.
RECURSIVE RunLenBack(_, _, _)
RunLenBack(s, i, cls) ==
    IF i >= 1 /\ CharAt(s, i) \in cls THEN 1 + RunLenBack(s, i - 1, cls) ELSE 0

\* str.strip()
Strip(s) ==
    LET l == RunLen(s, 1, Whitespace)
        r == RunLenBack(s, Len(s), Whitespace)
    IN  IF l = Len(s) THEN "" ELSE Slice(s, l + 1, Len(s) - r)

\* str.lstrip('#')
LStripHash(s) == Slice(s, RunLen(s, 1, {"#"}) + 1, Len(s))

\* str.replace(c, '') for a single character c
RECURSIVE RemoveChar(_, _)
RemoveChar(s, c) ==
    IF s = "" THEN ""
    ELSE (IF Head(s) = c THEN "" ELSE Head(s)) \o RemoveChar(Tail(s), c)

\* Position of the last occurrence of character c in s, 0 if there is none.
RECURSIVE LastIndexOf(_, _, _)
LastIndexOf(s, c, i) ==
    IF i < 1 THEN 0
    ELSE IF CharAt(s, i) = c THEN i ELSE LastIndexOf(s, c, i - 1)

\* str.rsplit(' ', 1): a one- or two-element list.
RSplitSpace(s) ==
    LET p == LastIndexOf(s, " ", Len(s))
    IN  IF p = 0 THEN <<s>>
        ELSE <<Slice(s, 1, p - 1), Slice(s, p + 1, Len(s))>>

\* The lower-case letter of every upper-case ASCII letter.
LowerTable ==
    [c \in {SubSeq("ABCDEFGHIJKLMNOPQRSTUVWXYZ", i, i) : i \in 1..26} |->
        SubSeq("abcdefghijklmnopqrstuvwxyz",
               CHOOSE i \in 1..26 : SubSeq("ABCDEFGHIJKLMNOPQRSTUVWXYZ", i, i) = c,
               CHOOSE i \in 1..26 : SubSeq("ABCDEFGHIJKLMNOPQRSTUVWXYZ", i, i) = c)]

\* str.lower() on ASCII letters.
LowerChar(c) == IF c \in DOMAIN LowerTable THEN LowerTable[c] ELSE c

RECURSIVE Lower(_)
Lower(s) == IF s = "" THEN "" ELSE LowerChar(Head(s)) \o Lower(Tail(s))

\* str.replace(c, d) for single characters c and d
RECURSIVE ReplaceChar(_, _, _)
ReplaceChar(s, c, d) ==
    IF s = "" THEN ""
    ELSE (IF Head(s) = c THEN d ELSE Head(s)) \o ReplaceChar(Tail(s), c, d)

\* s.startswith(pre)
StartsWith(s, pre) == Len(s) >= Len(pre) /\ Slice(s, 1, Len(pre)) = pre

\* sub in s
Contains(s, sub) ==
    \E i \in 1..(Len(s) - Len(sub) + 1) : Slice(s, i, i + Len(sub) - 1) = sub

DigitVal(c) ==
    CASE c = "0" -> 0 [] c = "1" -> 1 [] c = "2" -> 2 [] c = "3" -> 3
      [] c = "4" -> 4 [] c = "5" -> 5 [] c = "6" -> 6 [] c = "7" -> 7
      [] c = "8" -> 8 [] c = "9" -> 9

DigitChar(n) == SubSeq("0123456789", n + 1, n + 1)

\* int(s) for a string of decimal digits
RECURSIVE PyInt(_)
PyInt(s) ==
    IF s = "" THEN 0
    ELSE 10 * PyInt(Slice(s, 1, Len(s) - 1)) + DigitVal(CharAt(s, Len(s)))

\* str(n) for a natural number
RECURSIVE PyStr(_)
PyStr(n) == IF n < 10 THEN DigitChar(n) ELSE PyStr(n \div 10) \o DigitChar(n % 10)

\* f"{n:02d}"
Format02d(n) == IF n < 10 THEN "0" \o DigitChar(n) ELSE PyStr(n)

RECURSIVE Pow(_, _)
Pow(b, e) == IF e <= 0 THEN 1 ELSE b * Pow(b, e - 1)

Abs(x) == IF x < 0 THEN 0 - x ELSE x

(***************************************************************************)
(* Python float.  A float is a record [k, v]: k = "fin" with v the value   *)
(* in units of 2^-GridBits, k = "inf" with v = 1 or -1, or k = "nan".      *)
(* Finite values carry MantBits significant bits and every operation       *)
(* rounds to nearest, ties to even, as IEEE-754 binary64 does with 53.     *)
(***************************************************************************)
MantBits == 13

GridBits == MantBits + 6

Fin(v) == [k |-> "fin", v |-> v]

NaN == [k |-> "nan", v |-> 0]

Inf(sign) == [k |-> "inf", v |-> sign]

ValueError == [k |-> "ValueError", v |-> 0]

IsFinite(x) == x.k = "fin"

RECURSIVE BitLen(_)
BitLen(n) == IF n = 0 THEN 0 ELSE 1 + BitLen(n \div 2)

\* The weight of the last kept bit of a magnitude q (grid units).
Ulp(q) == IF BitLen(q) > MantBits THEN Pow(2, BitLen(q) - MantBits) ELSE 1

\* Ties to even: 1 when top + num/full rounds up, else 0.
RoundUp(top, num, full) ==
    IF 2 * num > full \/ (2 * num = full /\ top % 2 = 1) THEN 1 ELSE 0

RoundAt(q, rem, den, u) ==
    (q \div u + RoundUp(q \div u, (q % u) * den + rem, u * den)) * u

\* Round the magnitude q + rem/den (grid units, 0 <= rem < den) to
\* MantBits significant bits, ties to even.
RoundQuot(q, rem, den) == RoundAt(q, rem, den, Ulp(q))

FRound(x) == IF x < 0 THEN 0 - RoundQuot(0 - x, 0, 1) ELSE RoundQuot(x, 0, 1)

\* a + b on floats
FAdd(a, b) ==
    IF a.k = "nan" \/ b.k = "nan" THEN NaN
    ELSE IF a.k = "inf" /\ b.k = "inf" THEN (IF a.v = b.v THEN a ELSE NaN)
    ELSE IF a.k = "inf" THEN a
    ELSE IF b.k = "inf" THEN b
    ELSE Fin(FRound(a.v + b.v))

\* -a, a - b, abs(a) and a > b on floats
FNeg(a) == IF a.k = "nan" THEN NaN ELSE [k |-> a.k, v |-> 0 - a.v]

FSub(a, b) == FAdd(a, FNeg(b))

FAbs(a) == IF a.k = "nan" THEN NaN ELSE [k |-> a.k, v |-> Abs(a.v)]

FGt(a, b) ==
    IF a.k = "nan" \/ b.k = "nan" THEN FALSE
    ELSE IF a.k = "inf" THEN a.v = 1 /\ b # a
    ELSE IF b.k = "inf" THEN b.v = 0 - 1
    ELSE a.v > b.v

GridUnit == Pow(2, GridBits)

\* The float nearest to the decimal n / d (n >= 0, d a power of ten).
DecToFl(n, d) ==
    RoundQuot((n \div d) * GridUnit + ((n % d) * GridUnit) \div d,
              ((n % d) * GridUnit) % d, d)

\* The float of sign * M * 10^e10: zero, overflow to inf, or rounded.
FloatOfDecimal(sign, M, e10) ==
    IF M = 0 \/ Len(PyStr(M)) + e10 < 0 - 400 THEN Fin(0)
    ELSE IF Len(PyStr(M)) + e10 > 309 THEN Inf(sign)
    ELSE Fin(sign * DecToFl(M * Pow(10, e10), Pow(10, 0 - e10)))

\* The exponent digits start at position start and must end the string.
FloatWithExponent(body, sign, mant, f, start, esign) ==
    IF RunLen(body, start, Digits) >= 1 /\ start + RunLen(body, start, Digits) - 1 = Len(body)
    THEN FloatOfDecimal(sign, PyInt(mant), esign * PyInt(Slice(body, start, Len(body))) - f)
    ELSE ValueError

\* mant: the mantissa digits, f of them after the point, pm characters read.
FloatOfMantissa(body, sign, mant, f, pm) ==
    IF Len(mant) = 0 THEN ValueError
    ELSE IF pm = Len(body) THEN FloatOfDecimal(sign, PyInt(mant), 0 - f)
    ELSE IF CharAt(body, pm + 1) \notin {"e", "E"} THEN ValueError
    ELSE IF CharAt(body, pm + 2) = "-" THEN FloatWithExponent(body, sign, mant, f, pm + 3, 0 - 1)
    ELSE IF CharAt(body, pm + 2) = "+" THEN FloatWithExponent(body, sign, mant, f, pm + 3, 1)
    ELSE FloatWithExponent(body, sign, mant, f, pm + 2, 1)

\* i: the number of digits before the point.
FloatOfDigits(body, sign, i) ==
    IF CharAt(body, i + 1) = "."
    THEN FloatOfMantissa(body, sign,
             Slice(body, 1, i) \o Slice(body, i + 2, i + 1 + RunLen(body, i + 2, Digits)),
             RunLen(body, i + 2, Digits), i + 1 + RunLen(body, i + 2, Digits))
    ELSE FloatOfMantissa(body, sign, Slice(body, 1, i), 0, i)

FloatOfBody(body, sign) ==
    IF Lower(body) \in {"inf", "infinity"} THEN Inf(sign)
    ELSE IF Lower(body) = "nan" THEN NaN
    ELSE FloatOfDigits(body, sign, RunLen(body, 1, Digits))

FloatOfSigned(s) ==
    IF CharAt(s, 1) = "-" THEN FloatOfBody(Slice(s, 2, Len(s)), 0 - 1)
    ELSE IF CharAt(s, 1) = "+" THEN FloatOfBody(Slice(s, 2, Len(s)), 1)
    ELSE FloatOfBody(s, 1)

\* float(s): the float value, or ValueError.  Grammar of float():
\* surrounding whitespace, a sign, then inf | infinity | nan in any case, or
\* digits [. digits] [e [sign] digits] with at least one mantissa digit.
\* (Digit grouping with '_' is not modelled; no modelled token uses it.)
PyFloat(s) == FloatOfSigned(Strip(s))

(***************************************************************************)
(* PDF/text extractor: parse_transaction_pdf, two variants                 *)
(***************************************************************************)
Variants == {"parse_transactions", "parseTransactions"}

\* The elements of header_pattern, in order.  The employee group is .+ in
\* parse_transactions.py and \S+ in parseTransactions.py.
\*   ^(\d+)\s+(\d{1,2}/\d{1,2}/\d{2})\s+(\d{1,2}:\d{2})\s+#?(\d+)\s+(emp)
HeaderElements(v) ==
    <<"\\d+", "\\s+", "\\d{1,2}", "/", "\\d{1,2}", "/", "\\d{2}", "\\s+",
      "\\d{1,2}", ":", "\\d{2}", "\\s+", "#?", "\\d+", "\\s+",
      IF v = "parse_transactions" THEN ".+" ELSE "\\S+">>

Min(a, b) == IF a < b THEN a ELSE b

NonBlankRun(line, p) ==
    RunLen(line, p, {CharAt(line, q) : q \in 1..Len(line)} \ Whitespace)

\* How many characters the regex element e takes at position p of the line
\* (greedy), or -1 when it does not match there.  No element of the pattern
\* can match where its successor has to start, so the only backtracking is
\* the one of \s+ before .+, which HeaderGroups handles.
Take(line, p, e) ==
    CASE e = "\\d+"     -> IF RunLen(line, p, Digits) >= 1
                           THEN RunLen(line, p, Digits) ELSE 0 - 1
      [] e = "\\d{1,2}" -> IF RunLen(line, p, Digits) >= 1
                           THEN Min(RunLen(line, p, Digits), 2) ELSE 0 - 1
      [] e = "\\d{2}"   -> IF RunLen(line, p, Digits) >= 2 THEN 2 ELSE 0 - 1
      [] e = "\\s+"     -> IF RunLen(line, p, Whitespace) >= 1
                           THEN RunLen(line, p, Whitespace) ELSE 0 - 1
      [] e = "#?"       -> IF CharAt(line, p) = "#" THEN 1 ELSE 0
      [] e = ".+"       -> Len(line) - p + 1
      [] e = "\\S+"     -> IF NonBlankRun(line, p) >= 1
                           THEN NonBlankRun(line, p) ELSE 0 - 1
      [] OTHER          -> IF CharAt(line, p) = e THEN 1 ELSE 0 - 1

\* The positions where the elements from the k-th on start and the match
\* ends, appended to ps; <<>> when an element does not match.
RECURSIVE Scan(_, _, _, _)
Scan(line, elems, k, ps) ==
    IF k > Len(elems) THEN ps
    ELSE IF Take(line, ps[Len(ps)], elems[k]) < 0 THEN <<>>
    ELSE Scan(line, elems, k + 1,
              Append(ps, ps[Len(ps)] + Take(line, ps[Len(ps)], elems[k])))

\* The groupdict of a scan ps, or <<>>.  When nothing is left for .+ after
\* the blanks, \s+ gives its last blank back to it if it has two.
HeaderGroups(line, ps) ==
    IF ps = <<>> THEN <<>>
    ELSE IF ps[17] > ps[16]
    THEN [code |-> Slice(line, ps[1], ps[2] - 1),
          date |-> Slice(line, ps[3], ps[8] - 1),
          time |-> Slice(line, ps[9], ps[12] - 1),
          ref  |-> Slice(line, ps[14], ps[15] - 1),
          emp  |-> Slice(line, ps[16], ps[17] - 1)]
    ELSE IF ps[16] - ps[15] >= 2
    THEN [code |-> Slice(line, ps[1], ps[2] - 1),
          date |-> Slice(line, ps[3], ps[8] - 1),
          time |-> Slice(line, ps[9], ps[12] - 1),
          ref  |-> Slice(line, ps[14], ps[15] - 1),
          emp  |-> Slice(line, ps[16] - 1, Len(line))]
    ELSE <<>>

\* header_pattern.match(line): the groupdict, or <<>> for no match.
header_pattern(line, v) == HeaderGroups(line, Scan(line, HeaderElements(v), 1, <<1>>))

\* str.split(c) for a single character c
RECURSIVE Split(_, _, _)
Split(s, c, cur) ==
    IF s = "" THEN <<cur>>
    ELSE IF Head(s) = c THEN <<cur>> \o Split(Tail(s), c, "")
    ELSE Split(Tail(s), c, cur \o Head(s))

\* f"{yyyy}-{int(mm):02d}-{int(dd):02d}" with yyyy = '20' + yy
FormatDate(mdy) ==
    ("20" \o mdy[3]) \o "-" \o Format02d(PyInt(mdy[1])) \o "-" \o Format02d(PyInt(mdy[2]))

\* mm, dd, yy = info['date'].split('/') and the formatting above
NormaliseDate(date) == FormatDate(Split(date, "/", ""))

\* The dictionary that replaces header_info when a header line matches.
HeaderInfoMerged(old, g, v) ==
    [client_code |-> IF old = <<>> THEN g.code ELSE old.client_code,
     date        |-> NormaliseDate(g.date),
     time        |-> g.time,
     reference   |-> g.ref,
     employee    |-> IF v = "parse_transactions" THEN Strip(g.emp) ELSE g.emp]

HeaderInfo(old, g, v) ==
    [client_code |-> g.code,
     date        |-> NormaliseDate(g.date),
     time        |-> g.time,
     reference   |-> g.ref,
     employee    |-> IF v = "parse_transactions" THEN Strip(g.emp) ELSE g.emp]

\* header_info = {} at the start of every call
StaleHeaderInfo ==
    [client_code |-> "999", date |-> "2025-01-01", time |-> "00:00",
     reference |-> "1", employee |-> "zed"]

EmptyHeaderInfo == <<>>

\* price_str.replace('$', '').replace(',', '')
CleanPrice(price_str) == RemoveChar(RemoveChar(price_str, "$"), ",")

\* try: price = float(price_str) / except ValueError: continue
ParsePriceDefaultZero(price_str) ==
    IF PyFloat(CleanPrice(price_str)) = ValueError THEN Fin(0)
    ELSE PyFloat(CleanPrice(price_str))

ParsePrice(price_str) == PyFloat(CleanPrice(price_str))

\* records.append(record)
EmitDedup(recs, rec) ==
    IF \E k \in DOMAIN recs : recs[k] = rec THEN recs ELSE Append(recs, rec)

Emit(recs, rec) == Append(recs, rec)

\* A non-header line with a description and a parsed trailing token.
PricedLine(h, recs, desc, price) ==
    IF price = ValueError THEN [header_info |-> h, records |-> recs]
    ELSE [header_info |-> h,
          records |-> Emit(recs,
              [client_code |-> h.client_code,
               date        |-> h.date,
               time        |-> h.time,
               reference   |-> h.reference,
               employee    |-> h.employee,
               description |-> Strip(desc),
               price       |-> price])]

\* A line of a single token is taken as a price without description.
DetailLineSingleToken(h, recs, parts) ==
    IF h = <<>> THEN [header_info |-> h, records |-> recs]
    ELSE IF Len(parts) # 2 THEN PricedLine(h, recs, "", ParsePrice(parts[1]))
    ELSE PricedLine(h, recs, parts[1], ParsePrice(parts[2]))

\* A non-header line, split at its last blank.
DetailLine(h, recs, parts) ==
    IF h = <<>> \/ Len(parts) # 2 THEN [header_info |-> h, records |-> recs]
    ELSE PricedLine(h, recs, parts[1], ParsePrice(parts[2]))

ClassifyLine(v, h, recs, line) ==
    IF header_pattern(line, v) # <<>>
    THEN [header_info |-> HeaderInfo(h, header_pattern(line, v), v), records |-> recs]
    ELSE DetailLine(h, recs, RSplitSpace(line))

\* One iteration of the loop over the lines of the document: the new
\* header_info and records.  parse_transactions.py strips the line first.
LineStep(v, h, recs, raw) ==
    ClassifyLine(v, h, recs, IF v = "parse_transactions" THEN Strip(raw) ELSE raw)

(***************************************************************************)
(* Spreadsheet parser: the row loop of parse_excel.  A text cell is the    *)
(* string str(cell); a date cell is [t |-> "nat"] (empty), [t |->          *)
(* "datetime", y, m, d] or [t |-> "str", s]; a time cell is [t |->         *)
(* "datetime", h, m], [t |-> "number", secs] (a fraction of a day, given   *)
(* in seconds), [t |-> "nan"] (empty) or [t |-> "str", s].                 *)
(***************************************************************************)
\* strftime('%Y-%m-%d') of a datetime cell; pd.to_datetime(str(cell)) of a
\* text cell, which is modelled for ISO dates only: any other text raises.
DateIso(cell) ==
    IF cell.t = "datetime"
    THEN PyStr(cell.y) \o "-" \o Format02d(cell.m) \o "-" \o Format02d(cell.d)
    ELSE IF /\ Len(cell.s) = 10
            /\ \A q \in {1, 2, 3, 4, 6, 7, 9, 10} : CharAt(cell.s, q) \in Digits
            /\ CharAt(cell.s, 5) = "-" /\ CharAt(cell.s, 8) = "-"
    THEN cell.s
    ELSE "Exception"

\* Lines 107-118: strftime('%H:%M') of a datetime, the time of day of a
\* day fraction, '' when that conversion raises, else str(cell).strip().
TimeStr(cell) ==
    IF cell.t = "datetime" THEN Format02d(cell.h) \o ":" \o Format02d(cell.m)
    ELSE IF cell.t = "number"
    THEN Format02d((cell.secs \div 3600) % 24) \o ":" \o Format02d((cell.secs \div 60) % 60)
    ELSE IF cell.t = "nan" THEN ""
    ELSE Strip(cell.s)

\* str.split('\n', 1)
SplitFirstNewline(s) ==
    IF RunLen(s, 1, {CharAt(s, q) : q \in 1..Len(s)} \ {"\n"}) = Len(s) THEN <<s>>
    ELSE <<Slice(s, 1, RunLen(s, 1, {CharAt(s, q) : q \in 1..Len(s)} \ {"\n"})),
           Slice(s, RunLen(s, 1, {CharAt(s, q) : q \in 1..Len(s)} \ {"\n"}) + 2, Len(s))>>

\* Lines 120-129: the reference and the description of a row.
ExcelReference(descInRef, ref_val) ==
    IF descInRef THEN Strip(LStripHash(SplitFirstNewline(ref_val)[1]))
    ELSE LStripHash(ref_val)

ExcelDescription(descInRef, ref_val, desc_cell) ==
    IF ~descInRef THEN Strip(desc_cell)
    ELSE IF Len(SplitFirstNewline(ref_val)) > 1 THEN Strip(SplitFirstNewline(ref_val)[2])
    ELSE ""

\* Lines 131-135: float(...) of the cleaned cell, except Exception: 0.0
ExcelPrice(cell) ==
    IF PyFloat(Strip(CleanPrice(cell))) = ValueError THEN Fin(0)
    ELSE PyFloat(Strip(CleanPrice(cell)))

\* One iteration of the loop over df.iterrows(): the new records.
ExcelRowStep(descInRef, recs, row) ==
    IF Strip(row.code) = "" \/ Lower(Strip(row.code)) = "nan" THEN recs
    ELSE IF row.date.t = "nat" THEN recs
    ELSE IF DateIso(row.date) = "Exception" THEN recs
    ELSE Append(recs,
            [client_code |-> Strip(row.code),
             date        |-> DateIso(row.date),
             time        |-> TimeStr(row.time),
             reference   |-> ExcelReference(descInRef, Strip(row.reference)),
             employee    |-> Strip(row.employee),
             description |-> ExcelDescription(descInRef, Strip(row.reference), row.description),
             price       |-> ExcelPrice(row.price)])

(***************************************************************************)
(* Visit loader: load_transactions.  A CSV row is a dictionary of strings; *)
(* the visits dictionary is a sequence of [key, items] in insertion order. *)
(***************************************************************************)
\* key = (row['client_code'], row['date'], row['time'], row['reference'])
VisitKey(row) == <<row.client_code, row.date, row.time, row.reference>>

\* One list per row: the rows of a key are not brought together.
AddToVisitsUngrouped(visits, row) == Append(visits, [key |-> VisitKey(row), items |-> <<row>>])

\* A row joins the last list only: itertools.groupby on unsorted rows.
AddToVisitsAdjacent(visits, row) ==
    IF visits # <<>> /\ visits[Len(visits)].key = VisitKey(row)
    THEN [visits EXCEPT ![Len(visits)].items = Append(@, row)]
    ELSE Append(visits, [key |-> VisitKey(row), items |-> <<row>>])

\* visits[key].append(row) on the defaultdict(list)
AddToVisits(visits, row) ==
    IF \E i \in DOMAIN visits : visits[i].key = VisitKey(row)
    THEN [i \in DOMAIN visits |->
            IF visits[i].key = VisitKey(row)
            THEN [key |-> visits[i].key, items |-> Append(visits[i].items, row)]
            ELSE visits[i]]
    ELSE Append(visits, [key |-> VisitKey(row), items |-> <<row>>])

\* Lines 36-39: the loop that groups the rows.
RECURSIVE GroupRows(_, _)
GroupRows(rows, visits) ==
    IF rows = <<>> THEN visits
    ELSE GroupRows(Tail(rows), AddToVisits(visits, Head(rows)))

\* sum(float(item['price']) for item in items): left to right from 0, or
\* ValueError as soon as a price does not convert.
RECURSIVE SumPrices(_, _)
SumPrices(items, acc) ==
    IF items = <<>> THEN acc
    ELSE IF PyFloat(Head(items).price) = ValueError THEN ValueError
    ELSE SumPrices(Tail(items), FAdd(acc, PyFloat(Head(items).price)))

\* Lines 44-46 for every visit: the key, the items and the total (or
\* ValueError) that the outer loop computes, in the order it visits them.
VisitTotals(visits) ==
    [i \in DOMAIN visits |->
        [key |-> visits[i].key, items |-> visits[i].items,
         total |-> SumPrices(visits[i].items, Fin(0))]]

Aggregate(rows) == VisitTotals(GroupRows(rows, <<>>))

\* The orders in which the same n rows can stand in the file.
RowOrders(n) == {q \in [1..n -> 1..n] : \A i, j \in 1..n : i # j => q[i] # q[j]}

Permute(rows, q) == [i \in 1..Len(rows) |-> rows[q[i]]]

\* The employee of the last row of the group.
VisitRowLastEmployee(visit_id, key, items, total) ==
    [id |-> visit_id, client_code |-> key[1], date |-> key[2], time |-> key[3],
     reference |-> key[4],
     employee |-> IF "employee" \in DOMAIN items[Len(items)]
                  THEN items[Len(items)].employee ELSE "",
     subtotal |-> total, tax_tps |-> Fin(0), tax_tvq |-> Fin(0), tip |-> Fin(0),
     discount |-> Fin(0), total |-> total]

\* items[0].get('employee', '')
RowEmployee(row) == IF "employee" \in DOMAIN row THEN row.employee ELSE ""

\* The row of the INSERT INTO visits statement.
VisitRow(visit_id, key, items, total) ==
    [id |-> visit_id, client_code |-> key[1], date |-> key[2], time |-> key[3],
     reference |-> key[4], employee |-> RowEmployee(items[1]),
     subtotal |-> total, tax_tps |-> Fin(0), tax_tvq |-> Fin(0), tip |-> Fin(0),
     discount |-> Fin(0), total |-> total]

\* Every item under the first visit id ever drawn.
ItemRowFirstVisit(visit_id, item) ==
    [visit_id |-> 1, description |-> item.description, price |-> PyFloat(item.price)]

\* The row of the INSERT INTO visit_items statement.
ItemRow(visit_id, item) ==
    [visit_id |-> visit_id, description |-> item.description, price |-> PyFloat(item.price)]

\* conn.execute(INSERT ...) inside `with conn`: the row joins the open
\* transaction and reaches the table only at commit.
ExecuteAutocommit(table, tx, row) == [table |-> Append(table, row), tx |-> tx]

Execute(table, tx, row) == [table |-> table, tx |-> Append(tx, row)]

\* str(uuid.uuid4()): a value never returned before, named by its rank.
Uuid4Reused(issued) == 1

Uuid4(issued) == issued + 1

\* SELECT SUM(total) FROM visits WHERE client_code = ? AND date LIKE 'period-%'
\* over the rows in table order; NULL when no row matches.
SqlNull == [k |-> "null", v |-> 0]

RECURSIVE SqlSumTotal(_, _, _, _)
SqlSumTotal(table, code, period, acc) ==
    IF table = <<>> THEN acc
    ELSE IF Head(table).client_code = code
            /\ Len(Head(table).date) > Len(period)
            /\ Slice(Head(table).date, 1, Len(period) + 1) = period \o "-"
    THEN SqlSumTotal(Tail(table), code, period,
                     IF acc = SqlNull THEN Head(table).total ELSE FAdd(acc, Head(table).total))
    ELSE SqlSumTotal(Tail(table), code, period, acc)

(***************************************************************************)
(* Reconciliation: load_monthly_report and reconcile.  A report row is the *)
(* text str() gives for its code cell and its balance cell (a missing cell *)
(* reads as NaN, whose text is 'nan'); the report dictionary is a sequence *)
(* of [code, balance] in insertion order.                                  *)
(***************************************************************************)
\* _normalise on one column name
NormaliseColumn(c) == ReplaceChar(Lower(Strip(c)), " ", "_")

IsCodeColumn(col) == Contains(col, "code") \/ Contains(col, "client")

IsBalanceColumn(col) ==
    \/ StartsWith(col, "balance")
    \/ StartsWith(col, "owed")
    \/ Contains(col, "amount")
    \/ StartsWith(col, "total")

None == "None"

\* Falling back on the first column when no name matches.
FirstColumnOrDefault(columns, kind) == NormaliseColumn(columns[1])

\* Lines 57-68: the first column of each kind, or None.
FirstColumn(columns, kind) ==
    IF \E j \in DOMAIN columns :
          IF kind = "code" THEN IsCodeColumn(NormaliseColumn(columns[j]))
          ELSE IsBalanceColumn(NormaliseColumn(columns[j]))
    THEN NormaliseColumn(columns[
            CHOOSE j \in DOMAIN columns :
                /\ IF kind = "code" THEN IsCodeColumn(NormaliseColumn(columns[j]))
                   ELSE IsBalanceColumn(NormaliseColumn(columns[j]))
                /\ \A h \in 1..(j - 1) :
                      ~(IF kind = "code" THEN IsCodeColumn(NormaliseColumn(columns[h]))
                        ELSE IsBalanceColumn(NormaliseColumn(columns[h])))])
    ELSE None

(***************************************************************************)
(* Delivery: deliver_invoices                                              *)
(***************************************************************************)
\* Lines 56-60: the environment variables send_email reads.
SmtpVariables == {"SMTP_HOST", "SMTP_PORT", "SMTP_USER", "SMTP_PASS", "SENDER"}

\* Lines 29-41: the invoices whose period_start is LIKE 'period-%'.
RECURSIVE get_invoices(_, _)
get_invoices(table, period) ==
    IF table = <<>> THEN <<>>
    ELSE IF /\ Len(Head(table).period_start) > Len(period)
            /\ Slice(Head(table).period_start, 1, Len(period) + 1) = period \o "-"
    THEN <<[invoice_id |-> Head(table).id, client_code |-> Head(table).client_code]>>
            \o get_invoices(Tail(table), period)
    ELSE get_invoices(Tail(table), period)

\* The clients table: the email of a code; NULL or '' for a client without.
ClientEmails == [c \in {"007", "555"} |-> "c" \o c \o "@example.com"] @@ [c \in {"042"} |-> ""]

\* Lines 44-52: the email of the client, '' without row or without email.
get_client_email(client_code) ==
    IF client_code \in DOMAIN ClientEmails THEN ClientEmails[client_code] ELSE ""

\* Lines 55-79 and line 92: the status after send_email; an attachment
\* that cannot be opened raises out of the call.
send_email(env, has_file, smtp_ok) ==
    IF ~(SmtpVariables \subseteq env) THEN [status |-> "FAILED", attempted |-> FALSE]
    ELSE IF ~has_file THEN [status |-> "FileNotFoundError", attempted |-> FALSE]
    ELSE [status |-> IF smtp_ok THEN "SENT" ELSE "FAILED", attempted |-> TRUE]

\* Lines 85-93: the outcome of one invoice.
DeliverOne(env, client_code, has_file, smtp_ok) ==
    IF get_client_email(client_code) = "" THEN [status |-> "SKIPPED", attempted |-> FALSE]
    ELSE send_email(env, has_file, smtp_ok)

\* Line 86: Path(indir) / f"{client_code}_{period}.pdf"
InvoiceFile(client_code, period) == "out/" \o client_code \o "_" \o period \o ".pdf"

(***************************************************************************)
(* Journal parser: parse_journal_entries                                   *)
(***************************************************************************)
IsDigits(s) == s # "" /\ \A q \in 1..Len(s) : CharAt(s, q) \in Digits

\* The directives of strptime: %m is 1[0-2]|0[1-9]|[1-9], %d is
\* 3[01]|[12]\d|0[1-9]|[1-9]| [1-9], %y is \d\d.
MonthField(p) == Len(p) \in {1, 2} /\ IsDigits(p) /\ PyInt(p) \in 1..12

DayField(p) ==
    \/ Len(p) \in {1, 2} /\ IsDigits(p) /\ PyInt(p) \in 1..31
    \/ Len(p) = 2 /\ CharAt(p, 1) = " " /\ CharAt(p, 2) \in Digits \ {"0"}

YearField(p) == Len(p) = 2 /\ IsDigits(p)

\* %y: 69-99 are 1969-1999, 00-68 are 2000-2068.
CenturyYear(yy) == IF yy >= 69 THEN 1900 + yy ELSE 2000 + yy

IsLeap(y) == (y % 4 = 0 /\ y % 100 # 0) \/ y % 400 = 0

DaysInMonth(m, y) ==
    IF m = 2 THEN (IF IsLeap(y) THEN 29 ELSE 28)
    ELSE IF m \in {4, 6, 9, 11} THEN 30 ELSE 31

\* The date of three fields that match the directives, or ValueError.
DateOfFields(f) ==
    IF PyInt(Strip(f[2])) <= DaysInMonth(PyInt(f[1]), CenturyYear(PyInt(f[3])))
    THEN [y |-> CenturyYear(PyInt(f[3])), m |-> PyInt(f[1]), d |-> PyInt(Strip(f[2]))]
    ELSE ValueError

\* datetime.strptime(s, '%m-%d-%y')
strptime(s) ==
    IF /\ Len(Split(s, "-", "")) = 3
       /\ MonthField(Split(s, "-", "")[1])
       /\ DayField(Split(s, "-", "")[2])
       /\ YearField(Split(s, "-", "")[3])
    THEN DateOfFields(Split(s, "-", ""))
    ELSE ValueError

\* dt.strftime('%Y-%m-%d')
strftime(dt) == PyStr(dt.y) \o "-" \o Format02d(dt.m) \o "-" \o Format02d(dt.d)

\* Line 46: [p.strip() for p in line.split(',')]
JournalParts(line) ==
    [j \in DOMAIN Split(line, ",", "") |-> Strip(Split(line, ",", "")[j])]

\* Lines 48-66: a non-empty line, split in parts.
JournalPartsStep(date, ents, parts) ==
    IF strptime(parts[1]) # ValueError
    THEN [current_date |-> strftime(strptime(parts[1])), entries |-> ents]
    ELSE IF date # None /\ Len(parts) >= 2 /\ parts[1] = "1105"
    THEN IF PyFloat(RemoveChar(parts[2], ",")) = ValueError
         THEN [current_date |-> date, entries |-> ents]
         ELSE [current_date |-> date,
               entries |-> Append(ents, [date |-> date, account |-> "1105",
                                         amount |-> PyFloat(RemoveChar(parts[2], ","))])]
    ELSE [current_date |-> date, entries |-> ents]

\* Lines 42-66: the body of the line loop.
JournalLineStep(date, ents, line) ==
    IF Strip(line) = "" THEN [current_date |-> date, entries |-> ents]
    ELSE JournalPartsStep(date, ents, JournalParts(Strip(line)))

\* The functions the module txt_journal_parser defines.
ModuleFunctions == {"parse_journal_entries", "main"}

(***************************************************************************)
(* Spreadsheet parser: column discovery                                    *)
(***************************************************************************)
\* Lines 28-29.
normalise_columns(columns) == [j \in DOMAIN columns |-> NormaliseColumn(columns[j])]

\* The first column whose name contains kw, or None.
FirstContaining(df_columns, kw) ==
    IF \E j \in DOMAIN df_columns : Contains(df_columns[j], kw)
    THEN df_columns[CHOOSE j \in DOMAIN df_columns :
                        /\ Contains(df_columns[j], kw)
                        /\ \A h \in 1..(j - 1) : ~Contains(df_columns[h], kw)]
    ELSE None

\* Falling back on the first column when no keyword matches.
find_columnOrFirst(df_columns, keywords) ==
    IF df_columns = <<>> THEN None ELSE df_columns[1]

\* Columns in order, then keywords: the first column that matches any.
find_columnByColumn(df_columns, keywords) ==
    IF \E j \in DOMAIN df_columns : \E a \in DOMAIN keywords :
            Contains(df_columns[j], keywords[a])
    THEN df_columns[CHOOSE j \in DOMAIN df_columns :
            /\ \E a \in DOMAIN keywords : Contains(df_columns[j], keywords[a])
            /\ \A h \in 1..(j - 1) : \A a \in DOMAIN keywords :
                    ~Contains(df_columns[h], keywords[a])]
    ELSE None

\* Lines 32-37: keywords in order, then columns in order.
RECURSIVE find_column(_, _)
find_column(df_columns, keywords) ==
    IF keywords = <<>> THEN None
    ELSE IF FirstContaining(df_columns, Head(keywords)) # None
    THEN FirstContaining(df_columns, Head(keywords))
    ELSE find_column(df_columns, Tail(keywords))

\* Lines 64-70: the column of every field.
DiscoverColumns(df_columns) ==
    [code_col      |-> find_column(df_columns, <<"client_code", "code", "client">>),
     date_col      |-> find_column(df_columns, <<"date", "transaction_date">>),
     time_col      |-> find_column(df_columns, <<"time", "transaction_time">>),
     reference_col |-> find_column(df_columns, <<"reference", "ref", "#">>),
     employee_col  |-> find_column(df_columns, <<"employee", "server">>),
     desc_col      |-> find_column(df_columns, <<"description", "item", "detail">>),
     price_col     |-> find_column(df_columns, <<"price", "amount", "total", "unnamed:_6">>)]

NoColumns ==
    [code_col |-> None, date_col |-> None, time_col |-> None, reference_col |-> None,
     employee_col |-> None, desc_col |-> None, price_col |-> None]

\* Line 72: not all([...]) of the six mandatory columns.
NotAllFound(cols) ==
    \E col \in {cols.code_col, cols.date_col, cols.time_col, cols.reference_col,
                 cols.employee_col, cols.price_col} : col = None \/ col = ""

\* Lines 73-80: the names whose column is None.
MissingNames(cols) ==
    (IF cols.code_col = None THEN <<"client code">> ELSE <<>>)
    \o (IF cols.date_col = None THEN <<"date">> ELSE <<>>)
    \o (IF cols.time_col = None THEN <<"time">> ELSE <<>>)
    \o (IF cols.reference_col = None THEN <<"reference">> ELSE <<>>)
    \o (IF cols.employee_col = None THEN <<"employee">> ELSE <<>>)
    \o (IF cols.price_col = None THEN <<"price">> ELSE <<>>)

\* ', '.join(names)
RECURSIVE JoinComma(_)
JoinComma(names) ==
    IF names = <<>> THEN ""
    ELSE IF Len(names) = 1 THEN names[1]
    ELSE names[1] \o ", " \o JoinComma(Tail(names))

\* Line 81: the message of the ValueError.
MissingMessage(cols) == "Missing expected columns: " \o JoinComma(MissingNames(cols))

\* float(str(cell).replace('$', '').replace(',', '').strip())
ReportBalance(cell) == PyFloat(Strip(RemoveChar(RemoveChar(cell, "$"), ",")))

\* report[code] = balance: the earlier rows of the code are forgotten.
ReportGetNothing(report, code) == Fin(0)

\* report.get(code, 0.0)
ReportGet(report, code) ==
    IF \E i \in DOMAIN report : report[i].code = code
    THEN report[CHOOSE i \in DOMAIN report : report[i].code = code].balance
    ELSE Fin(0)

\* A list of pairs instead of a dictionary: a repeated code is listed again.
ReportSetAppend(report, code, value) == Append(report, [code |-> code, balance |-> value])

\* report[code] = value
ReportSet(report, code, value) ==
    IF \E i \in DOMAIN report : report[i].code = code
    THEN [i \in DOMAIN report |->
            IF report[i].code = code THEN [code |-> code, balance |-> value]
            ELSE report[i]]
    ELSE Append(report, [code |-> code, balance |-> value])

\* Lines 75-82: one row of the report.
ReportRowStep(report, row) ==
    IF Strip(row.code) = "" \/ Lower(Strip(row.code)) = "nan" THEN report
    ELSE IF ReportBalance(row.balance) = ValueError THEN report
    ELSE ReportSet(report, Strip(row.code),
                   FAdd(ReportGet(report, Strip(row.code)), ReportBalance(row.balance)))

\* A sum over the client's visits of every period.
RECURSIVE SqlSumTotalAnyDate(_, _, _, _)
SqlSumTotalAnyDate(table, code, period, acc) ==
    IF table = <<>> THEN acc
    ELSE IF Head(table).client_code = code
    THEN SqlSumTotalAnyDate(Tail(table), code, period,
                            IF acc = SqlNull THEN Head(table).total
                            ELSE FAdd(acc, Head(table).total))
    ELSE SqlSumTotalAnyDate(Tail(table), code, period, acc)

ActualTotalAnyDate(table, code, period) ==
    IF SqlSumTotalAnyDate(table, code, period, SqlNull) = SqlNull THEN Fin(0)
    ELSE SqlSumTotalAnyDate(table, code, period, SqlNull)

\* Lines 73-83: the report of all the rows.
RECURSIVE LoadReport(_, _)
LoadReport(rows, report) ==
    IF rows = <<>> THEN report
    ELSE LoadReport(Tail(rows), ReportRowStep(report, Head(rows)))

\* Lines 94-102: actual for one code.
ActualTotal(table, code, period) ==
    IF SqlSumTotal(table, code, period, SqlNull) = SqlNull THEN Fin(0)
    ELSE SqlSumTotal(table, code, period, SqlNull)

\* The tolerance 0.01 of line 104.
Tolerance == PyFloat("0.01")

\* abs(diff) >= 0.01
ExceedsInclusive(diff) == FGt(FAbs(diff), Tolerance) \/ FAbs(diff) = Tolerance

\* abs(diff) > 0.01
Exceeds(diff) == FGt(FAbs(diff), Tolerance)

\* A code without visits is passed over.
CompareSkipNoVisits(found, entry, actual) ==
    IF actual # Fin(0) /\ FGt(FAbs(FSub(actual, entry.balance)), Tolerance)
    THEN Append(found, [client_code |-> entry.code, expected_balance |-> entry.balance,
                        actual_total |-> actual,
                        difference |-> FSub(actual, entry.balance)])
    ELSE found

\* Lines 102-110: the discrepancies after comparing one report entry.
Compare(found, entry, actual) ==
    IF Exceeds(FSub(actual, entry.balance))
    THEN Append(found, [client_code |-> entry.code, expected_balance |-> entry.balance,
                        actual_total |-> actual,
                        difference |-> FSub(actual, entry.balance)])
    ELSE found

(***************************************************************************)
(* Bounds and inputs                                                       *)
(***************************************************************************)
\* Longest document, in lines.
MaxLines == 3

\* The lines a document is made of.
DocLines ==
    {"007 7/4/25 9:05 #88 ana",
     "042 12/31/24 18:30 91 bob lee",
     " 042 12/31/24 18:30 91 bob lee",
     "Club Sandwich 12.50",
     "Coffee $2.50",
     "Merci et a bientot",
     "12.50",
     "Total nan",
     "Bonus 1e999",
     "Page 2",
     ""}

\* Longest sheet, in data rows.
MaxSheetRows == 3

July4 == [t |-> "datetime", y |-> 2025, m |-> 7, d |-> 4]

\* Most columns in a header whose discovery is compared.
MaxColumns == 3

\* The column names of such a header.
ColumnNames == {"Client", "Client Code", "Total", "Price", "Date", "Balance", "Amount Due"}

\* The headers: column names in sheet order, none twice.
ColumnHeaders ==
    UNION {{h \in [1..n -> ColumnNames] : \A i, j \in 1..n : h[i] = h[j] => i = j} :
              n \in 0..MaxColumns}

\* Most rows in the invoices table.
MaxInvoices == 2

\* The rows of the invoices table, without their id.
InvoiceRows ==
    {[client_code |-> "007", period_start |-> "2025-07-01"],
     [client_code |-> "555", period_start |-> "2025-07-01"],
     [client_code |-> "042", period_start |-> "2025-07-01"],
     [client_code |-> "099", period_start |-> "2025-07-01"],
     [client_code |-> "007", period_start |-> "2025-08-01"]}

\* The invoices tables, ids in rowid order.
InvoiceTables ==
    UNION {{[i \in 1..n |-> [id |-> i, client_code |-> t[i].client_code,
                              period_start |-> t[i].period_start]] :
                t \in [1..n -> InvoiceRows]} : n \in 0..MaxInvoices}

\* The environments: nothing set, everything set, the password missing.
Environments == {{}, SmtpVariables, SmtpVariables \ {"SMTP_PASS"}}

\* Most lines in a journal file.
MaxJournalLines == 3

\* The lines a journal file is made of.
JournalLines ==
    {"08-05-25", "12-31-99, Tuesday", "13-05-25",
     "1105, 31.85", "1105, 1,234.50", "1105,abc", "4100, 12.00", ""}

JournalFiles == UNION {[1..n -> JournalLines] : n \in 0..MaxJournalLines}

\* The attributes of txt_journal_parser a caller asks for.
JournalCallers == {"parse_journal_entries", "parse_journal_file"}

\* The header rows a sheet may have.
SheetHeaders ==
    {<<"Client Code", "Date", "Time", "Reference", "Employee", "Description", "Price">>,
     <<"Client Code", "Date", "Time", "Reference", "Employee", "Unnamed: 6">>,
     <<"Client", "Transaction Date", "Transaction Time", "#", "Total">>,
     <<"Client Code", "Date", "Reference", "Description", "Price">>,
     <<"Code", "Date", "Time", "Ref", "Server", "Item">>,
     <<"Description">>,
     <<"Name", "Notes">>}

\* The data rows a sheet is made of.
SheetRows ==
    {[code |-> "007", date |-> July4, time |-> [t |-> "str", s |-> "9:05"],
      reference |-> "#88", employee |-> "ana", description |-> "Club Sandwich",
      price |-> "12.5"],
     [code |-> "007", date |-> July4, time |-> [t |-> "datetime", h |-> 9, m |-> 5],
      reference |-> "#88", employee |-> "ana", description |-> "Soupe du jour",
      price |-> "N/A"],
     [code |-> "042", date |-> [t |-> "str", s |-> "2024-12-31"],
      time |-> [t |-> "number", secs |-> 66600],
      reference |-> "#91\nCoffee", employee |-> " bob lee", description |-> "nan",
      price |-> "$1,234.50"],
     [code |-> "042", date |-> July4, time |-> [t |-> "nan"],
      reference |-> "92", employee |-> "bob lee", description |-> "Eau",
      price |-> "0.0"],
     [code |-> "007", date |-> July4, time |-> [t |-> "str", s |-> "09:05:00"],
      reference |-> "93", employee |-> "ana", description |-> "Pourboire",
      price |-> "nan"],
     [code |-> "nan", date |-> July4, time |-> [t |-> "nan"],
      reference |-> "nan", employee |-> "nan", description |-> "Total",
      price |-> "45.0"],
     [code |-> "007", date |-> [t |-> "nat"], time |-> [t |-> "nan"],
      reference |-> "94", employee |-> "ana", description |-> "Cafe",
      price |-> "2.5"],
     [code |-> "007", date |-> [t |-> "str", s |-> "juillet"], time |-> [t |-> "nan"],
      reference |-> "95", employee |-> "ana", description |-> "The",
      price |-> "2.5"]}

\* Most rows in one CSV file, and most calls of load_transactions.
MaxRows == 2

MaxLoads == 2

Visit88 == [client_code |-> "007", date |-> "2025-07-04", time |-> "9:05", reference |-> "88"]

Visit89 == [client_code |-> "007", date |-> "2025-07-04", time |-> "12:00", reference |-> "89"]

Visit91 == [client_code |-> "042", date |-> "2025-08-01", time |-> "18:30", reference |-> "91"]

\* The rows of a transactions CSV file.
CsvRows ==
    {Visit88 @@ [employee |-> "ana", description |-> "Club Sandwich", price |-> "10.00"],
     Visit88 @@ [employee |-> "bob", description |-> "Coffee", price |-> "2.50"],
     Visit88 @@ [employee |-> "ana", description |-> "Gum", price |-> "0.01"],
     Visit89 @@ [employee |-> "ana", description |-> "Soup", price |-> "0.23"],
     Visit91 @@ [employee |-> "bob lee", description |-> "Tea", price |-> "abc"],
     Visit91 @@ [description |-> "Pie", price |-> "5.00"]}

\* Most rows in a file whose aggregation is compared across row orders.
MaxAggRows == 3

\* Rows whose prices do not add exactly in binary floating point.
AggRows ==
    {Visit88 @@ [employee |-> "ana", description |-> "Bread", price |-> "0.10"],
     Visit88 @@ [employee |-> "ana", description |-> "Butter", price |-> "0.20"],
     Visit88 @@ [employee |-> "bob", description |-> "Jam", price |-> "0.30"],
     Visit89 @@ [employee |-> "ana", description |-> "Bread", price |-> "0.10"]}

AggFiles == UNION {[1..n -> AggRows] : n \in 0..MaxAggRows}

\* The CSV files: the sequences of at most MaxRows rows.
CsvFiles == UNION {[1..n -> CsvRows] : n \in 0..MaxRows}

\* Most data rows in one monthly report.
MaxReportRows == 2

\* The column names of a monthly report as pandas reads them.
ReportHeaders ==
    {<<"Client Code", "Balance">>, <<"Client", " Amount Due">>,
     <<"Name", "Balance">>, <<"Code", "Note">>, <<"Name", "Note">>}

\* The rows of a monthly report: the texts of the code and balance cells.
ReportRows ==
    {[code |-> "007", balance |-> "50.0"],
     [code |-> "007", balance |-> "1.0"],
     [code |-> "007", balance |-> "12.51"],
     [code |-> "42", balance |-> "10.0"],
     [code |-> "42", balance |-> "5.0"],
     [code |-> "42", balance |-> "nan"],
     [code |-> "42", balance |-> "abc"],
     [code |-> "99", balance |-> "0.01"],
     [code |-> "98", balance |-> "0.0101"],
     [code |-> "nan", balance |-> "3.0"]}

ReportFiles == UNION {[1..n -> ReportRows] : n \in 0..MaxReportRows}

\* A visits row as load_transactions stores it for a one-item visit.
StoredVisit(id, code, date, price) ==
    VisitRow(id, <<code, date, "9:05", "88">>, <<[employee |-> "ana"]>>, PyFloat(price))

\* The visits table that reconcile reads.
StoredTables ==
    {<<>>,
     <<StoredVisit(1, "007", "2025-07-04", "1.01")>>,
     <<StoredVisit(1, "007", "2025-07-04", "12.50"),
       StoredVisit(2, "007", "2025-08-01", "5.00"),
       StoredVisit(3, "555", "2025-07-11", "20.00")>>,
     <<StoredVisit(1, "42", "2025-07-10", "15.00"),
       StoredVisit(2, "42", "2025-07-20", "0.01"),
       StoredVisit(3, "99", "2025-08-02", "0.02")>>}

Periods == {"2025-07", "2025-08"}

\* Most rows in a report whose loading is compared across row orders.
MaxOrderRows == 3

\* Report rows whose balances do not add exactly in binary floating point.
OrderRows ==
    {[code |-> "42", balance |-> "0.1"],
     [code |-> "42", balance |-> "0.2"],
     [code |-> "42", balance |-> "10.0"],
     [code |-> "42", balance |-> "5.0"],
     [code |-> "7", balance |-> "abc"]}

OrderFiles == UNION {[1..n -> OrderRows] : n \in 0..MaxOrderRows}

(***************************************************************************)
(* State                                                                   *)
(***************************************************************************)
VARIABLES
    variant,      \* which of the two extractor scripts runs
    lines,        \* the lines of the document read so far, in order
    header_info,  \* the extractor's current header context
    records,      \* the extractor's output list
    origin,       \* origin[k]: index in lines of the line records[k] came from
    p_pc          \* "scan" while the extractor loops, "returned" afterwards

parseVars == <<variant, lines, header_info, records, origin, p_pc>>

VARIABLES
    x_columns,      \* the header row of the sheet, as read
    x_cols,         \* parse_excel: the discovered column of every field
    x_error,        \* message of the ValueError parse_excel raised, "" if none
    x_desc_in_ref,  \* parse_excel: desc_col == reference_col (no description column)
    x_rows,         \* the data rows of the sheet read so far
    x_records,      \* parse_excel's output list
    x_origin,       \* x_origin[k]: index in x_rows of the row x_records[k] came from
    x_pc            \* "columns" at column discovery, "rows" while parse_excel
                    \* loops, "returned" or "raised" afterwards

excelVars == <<x_columns, x_cols, x_error, x_desc_in_ref, x_rows, x_records, x_origin, x_pc>>

VARIABLES
    csv_file,    \* the rows of the CSV file at csv_path
    l_pc,        \* load_transactions: "idle", "visit" (top of the outer loop), "item"
    l_rows,      \* rows: the CSV rows of the running call
    l_visits,    \* visits: the grouped rows of the running call
    l_vi,        \* position of the outer loop in l_visits
    l_ii,        \* position of the inner loop in the current visit's items
    l_visit_id,  \* visit_id of the current visit
    tx_visits,   \* visits rows of the open transaction, not yet committed
    tx_items,    \* visit_items rows of the open transaction, not yet committed
    db_visits,   \* the visits table (committed rows, in rowid order)
    db_items,    \* the visit_items table (committed rows, in rowid order)
    uuid_issued, \* how many uuid4 values have been drawn
    l_calls      \* history: for each ended call its rows, outcome and visit ids

loadVars == <<csv_file, l_pc, l_rows, l_visits, l_vi, l_ii, l_visit_id, tx_visits, tx_items,
              db_visits, db_items, uuid_issued, l_calls>>

VARIABLES
    a_pc,          \* aggregation of one file in two row orders: "input", "permuted", "done"
    a_rows,        \* the rows in the order of the file
    a_perm,        \* the same rows in another order
    a_visits,      \* the visits and totals computed from a_rows
    a_perm_visits  \* the visits and totals computed from a_perm

aggVars == <<a_pc, a_rows, a_perm, a_visits, a_perm_visits>>

VARIABLES
    m_columns,     \* df.columns of the monthly report as read, before _normalise
    m_rows,        \* the rows of the monthly report: code and balance cell texts
    m_cols,        \* code_col and balance_col
    m_i,           \* position of the row loop of load_monthly_report
    report,        \* load_monthly_report: report, entries in insertion order
    r_period,      \* reconcile: period
    r_pc,          \* "idle", "columns", "rows", "compare", "write", "done", "raised"
    r_i,           \* position of the loop over report.items()
    discrepancies, \* reconcile: discrepancies
    r_out,         \* the file at output_path: whether written, and its rows
    r_compared     \* history: the codes looked up in the visits table, in order

reconVars == <<m_columns, m_rows, m_cols, m_i, report, r_period, r_pc, r_i,
               discrepancies, r_out, r_compared>>

VARIABLES
    j_entry,       \* the attribute of txt_journal_parser that the caller calls
    j_lines,       \* the lines of the journal file
    j_i,           \* position of the line loop
    current_date,  \* parse_journal_entries: current_date
    entries,       \* parse_journal_entries: entries
    j_origin,      \* history: the line each entry came from
    j_pc,          \* "idle", "call", "lines", "returned", "raised"
    j_error        \* the exception that reached the caller, "" if none

journalVars == <<j_entry, j_lines, j_i, current_date, entries, j_origin, j_pc, j_error>>

VARIABLES
    d_env,         \* the environment variables that are set
    d_invoices,    \* the invoices table: id, client_code, period_start
    d_files,       \* the client codes whose invoice PDF exists in indir
    d_period,      \* deliver_invoices: period
    d_found,       \* deliver_invoices: invoices
    d_i,           \* position of the loop over invoices
    d_rows,        \* deliver_invoices: rows
    d_manifest,    \* the manifest file
    d_attempted,   \* history: the positions in d_found an SMTP send was made for
    d_pc           \* "idle", "start", "loop", "done", "raised"

deliverVars == <<d_env, d_invoices, d_files, d_period, d_found, d_i, d_rows, d_manifest,
                 d_attempted, d_pc>>

vars == <<parseVars, excelVars, loadVars, aggVars, reconVars, journalVars, deliverVars>>

NoFile == [written |-> FALSE, rows |-> <<>>]

ReconIdle ==
    /\ m_columns = <<>>
    /\ m_rows = <<>>
    /\ m_cols = [code_col |-> None, balance_col |-> None]
    /\ m_i = 0
    /\ report = <<>>
    /\ r_period = ""
    /\ r_pc = "idle"
    /\ r_i = 0
    /\ discrepancies = <<>>
    /\ r_out = NoFile
    /\ r_compared = <<>>

DeliverIdle ==
    /\ d_env = {}
    /\ d_invoices = <<>>
    /\ d_files = {}
    /\ d_period = ""
    /\ d_found = <<>>
    /\ d_i = 0
    /\ d_rows = <<>>
    /\ d_manifest = NoFile
    /\ d_attempted = {}
    /\ d_pc = "idle"

JournalIdle ==
    /\ j_entry = ""
    /\ j_lines = <<>>
    /\ j_i = 0
    /\ current_date = None
    /\ entries = <<>>
    /\ j_origin = <<>>
    /\ j_pc = "idle"
    /\ j_error = ""

AggIdle ==
    /\ a_pc = "idle"
    /\ a_rows = <<>>
    /\ a_perm = <<>>
    /\ a_visits = <<>>
    /\ a_perm_visits = <<>>

\* No call of load_transactions has been made; the CSV file holds `file`.
LoadReady(file) ==
    /\ csv_file = file
    /\ l_pc = "idle"
    /\ l_rows = <<>>
    /\ l_visits = <<>>
    /\ l_vi = 0
    /\ l_ii = 0
    /\ l_visit_id = 0
    /\ tx_visits = <<>>
    /\ tx_items = <<>>
    /\ db_visits = <<>>
    /\ db_items = <<>>
    /\ uuid_issued = 0
    /\ l_calls = <<>>

LoadIdle == LoadReady(<<>>)

\* The extractor, respectively parse_excel, is not running.
ParseIdle ==
    /\ variant = "parse_transactions"
    /\ lines = <<>>
    /\ header_info = EmptyHeaderInfo
    /\ records = <<>>
    /\ origin = <<>>
    /\ p_pc = "idle"

ExcelIdle ==
    /\ x_columns = <<>>
    /\ x_cols = NoColumns
    /\ x_error = ""
    /\ x_desc_in_ref = FALSE
    /\ x_rows = <<>>
    /\ x_records = <<>>
    /\ x_origin = <<>>
    /\ x_pc = "idle"

(***************************************************************************)
(* Extractor: parse_transaction_pdf                                        *)
(***************************************************************************)
InitParse ==
    /\ variant \in Variants
    /\ lines = <<>>
    /\ header_info = EmptyHeaderInfo
    /\ records = <<>>
    /\ origin = <<>>
    /\ p_pc = "scan"
    /\ ExcelIdle
    /\ LoadIdle
    /\ AggIdle
    /\ ReconIdle
    /\ JournalIdle
    /\ DeliverIdle

\* The state after reading raw, r being the result of the loop body.
ReadLine(raw, r) ==
    /\ lines' = Append(lines, raw)
    /\ header_info' = r.header_info
    /\ records' = r.records
    /\ origin' = IF Len(r.records) > Len(records)
                 THEN Append(origin, Len(lines) + 1) ELSE origin

\* The loop body on the next line of the document.
ParseLine ==
    /\ p_pc = "scan"
    /\ Len(lines) < MaxLines
    /\ \E raw \in DocLines : ReadLine(raw, LineStep(variant, header_info, records, raw))
    /\ UNCHANGED <<variant, p_pc, excelVars, loadVars, aggVars, reconVars, journalVars, deliverVars>>

\* End of the document: return records.
ParseReturn ==
    /\ p_pc = "scan"
    /\ p_pc' = "returned"
    /\ UNCHANGED <<variant, lines, header_info, records, origin, excelVars, loadVars, aggVars, reconVars, journalVars, deliverVars>>

NextParse == ParseLine \/ ParseReturn

Spec == InitParse /\ [][NextParse]_vars

(***************************************************************************)
(* Spreadsheet parser: parse_excel                                         *)
(***************************************************************************)
InitExcel ==
    /\ ParseIdle
    /\ LoadIdle
    /\ AggIdle
    /\ ReconIdle
    /\ JournalIdle
    /\ DeliverIdle
    /\ x_columns \in SheetHeaders
    /\ x_cols = NoColumns
    /\ x_error = ""
    /\ x_desc_in_ref = FALSE
    /\ x_rows = <<>>
    /\ x_records = <<>>
    /\ x_origin = <<>>
    /\ x_pc = "columns"

\* Lines 61-87: column discovery; raise when a mandatory column is missing.
ExcelColumns ==
    /\ x_pc = "columns"
    /\ x_cols' = DiscoverColumns(normalise_columns(x_columns))
    /\ IF NotAllFound(DiscoverColumns(normalise_columns(x_columns)))
       THEN /\ x_pc' = "raised"
            /\ x_error' = MissingMessage(DiscoverColumns(normalise_columns(x_columns)))
            /\ x_desc_in_ref' = x_desc_in_ref
       ELSE /\ x_pc' = "rows"
            /\ x_error' = x_error
            /\ x_desc_in_ref' = (DiscoverColumns(normalise_columns(x_columns)).desc_col = None)
    /\ UNCHANGED <<x_columns, x_rows, x_records, x_origin,
                   parseVars, loadVars, aggVars, reconVars, journalVars, deliverVars>>

\* The state after reading row, recs being the result of the loop body.
ReadRow(row, recs) ==
    /\ x_rows' = Append(x_rows, row)
    /\ x_records' = recs
    /\ x_origin' = IF Len(recs) > Len(x_records)
                   THEN Append(x_origin, Len(x_rows) + 1) ELSE x_origin

\* The loop body on the next row of the sheet.
ExcelRow ==
    /\ x_pc = "rows"
    /\ Len(x_rows) < MaxSheetRows
    /\ \E row \in SheetRows : ReadRow(row, ExcelRowStep(x_desc_in_ref, x_records, row))
    /\ UNCHANGED <<x_columns, x_cols, x_error, x_desc_in_ref, x_pc,
                   parseVars, loadVars, aggVars, reconVars, journalVars, deliverVars>>

\* End of the sheet: return records.
ExcelReturn ==
    /\ x_pc = "rows"
    /\ x_pc' = "returned"
    /\ UNCHANGED <<x_columns, x_cols, x_error, x_desc_in_ref, x_rows, x_records, x_origin,
                   parseVars, loadVars, aggVars, reconVars, journalVars, deliverVars>>

NextExcel == ExcelColumns \/ ExcelRow \/ ExcelReturn

SpecExcel == InitExcel /\ [][NextExcel]_vars

(***************************************************************************)
(* Visit loader: load_transactions, statement by statement                 *)
(***************************************************************************)
InitLoad ==
    /\ ParseIdle /\ ExcelIdle /\ AggIdle /\ ReconIdle /\ JournalIdle /\ DeliverIdle
    /\ \E file \in CsvFiles : LoadReady(file)

\* The visit ids drawn by the running call so far.
RunningIds == {tx_visits[i].id : i \in DOMAIN tx_visits}

\* An exception leaves `with conn`: the transaction is rolled back, the
\* connection closed and the exception reaches the caller.
Rollback(ids) ==
    /\ tx_visits' = <<>>
    /\ tx_items' = <<>>
    /\ l_pc' = "idle"
    /\ l_calls' = Append(l_calls, [rows |-> l_rows, ok |-> FALSE, ids |-> ids])
    /\ UNCHANGED <<csv_file, l_rows, l_visits, l_vi, l_ii, l_visit_id>>

\* Lines 29-41: read the CSV file, group its rows, connect.
LoadStart ==
    /\ l_pc = "idle"
    /\ Len(l_calls) < MaxLoads
    /\ l_rows' = csv_file
    /\ l_visits' = GroupRows(csv_file, <<>>)
    /\ l_pc' = "visit"
    /\ l_vi' = 1
    /\ l_ii' = 0
    /\ UNCHANGED <<csv_file, l_visit_id, tx_visits, tx_items, db_visits, db_items, uuid_issued,
                   l_calls, parseVars, excelVars, aggVars, reconVars, journalVars, deliverVars>>

\* The INSERT INTO visits of the current visit, with its id and total.
InsertVisit(id, total, w) ==
    /\ l_visit_id' = id
    /\ db_visits' = w.table
    /\ tx_visits' = w.tx
    /\ l_pc' = "item"
    /\ l_ii' = 1
    /\ UNCHANGED <<csv_file, l_rows, l_visits, l_vi, tx_items, db_items, l_calls>>

\* Lines 44-71: the head of the outer loop for the next visit: draw the id,
\* sum the prices (a price that does not convert raises), insert the visit.
LoadVisit ==
    /\ l_pc = "visit"
    /\ l_vi <= Len(l_visits)
    /\ uuid_issued' = uuid_issued + 1
    /\ IF SumPrices(l_visits[l_vi].items, Fin(0)) = ValueError
       THEN Rollback(RunningIds \cup {Uuid4(uuid_issued)}) /\ UNCHANGED <<db_visits, db_items>>
       ELSE InsertVisit(Uuid4(uuid_issued), SumPrices(l_visits[l_vi].items, Fin(0)),
                Execute(db_visits, tx_visits,
                    VisitRow(Uuid4(uuid_issued), l_visits[l_vi].key, l_visits[l_vi].items,
                             SumPrices(l_visits[l_vi].items, Fin(0)))))
    /\ UNCHANGED <<parseVars, excelVars, aggVars, reconVars, journalVars, deliverVars>>

\* The INSERT INTO visit_items of the next item.
InsertItem(w) ==
    /\ db_items' = w.table
    /\ tx_items' = w.tx

\* Lines 73-81: the inner loop body; after the last item the outer loop
\* moves on.
LoadItem ==
    /\ l_pc = "item"
    /\ InsertItem(Execute(db_items, tx_items,
                          ItemRow(l_visit_id, l_visits[l_vi].items[l_ii])))
    /\ IF l_ii < Len(l_visits[l_vi].items)
       THEN l_ii' = l_ii + 1 /\ UNCHANGED <<l_pc, l_vi>>
       ELSE l_pc' = "visit" /\ l_vi' = l_vi + 1 /\ l_ii' = 0
    /\ UNCHANGED <<csv_file, l_rows, l_visits, l_visit_id, tx_visits, db_visits, uuid_issued,
                   l_calls, parseVars, excelVars, aggVars, reconVars, journalVars, deliverVars>>

\* conn.execute raises (sqlite3.Error: missing table, constraint, I/O).
LoadInsertFails ==
    /\ \/ l_pc = "visit" /\ l_vi <= Len(l_visits)
       \/ l_pc = "item"
    /\ Rollback(RunningIds)
    /\ UNCHANGED <<db_visits, db_items, uuid_issued, parseVars, excelVars, aggVars, reconVars, journalVars, deliverVars>>

\* The outer loop is over: `with conn` commits, the connection is closed.
LoadCommit ==
    /\ l_pc = "visit"
    /\ l_vi > Len(l_visits)
    /\ db_visits' = db_visits \o tx_visits
    /\ db_items' = db_items \o tx_items
    /\ tx_visits' = <<>>
    /\ tx_items' = <<>>
    /\ l_pc' = "idle"
    /\ l_calls' = Append(l_calls, [rows |-> l_rows, ok |-> TRUE, ids |-> RunningIds])
    /\ UNCHANGED <<csv_file, l_rows, l_visits, l_vi, l_ii, l_visit_id, uuid_issued,
                   parseVars, excelVars, aggVars, reconVars, journalVars, deliverVars>>

NextLoad == LoadStart \/ LoadVisit \/ LoadItem \/ LoadInsertFails \/ LoadCommit

SpecLoad == InitLoad /\ [][NextLoad]_vars

(***************************************************************************)
(* Aggregation of one file read in two row orders                          *)
(***************************************************************************)
InitAggregate ==
    /\ ParseIdle /\ ExcelIdle /\ LoadIdle /\ ReconIdle /\ JournalIdle /\ DeliverIdle
    /\ a_pc = "input"
    /\ a_rows \in AggFiles
    /\ a_perm = a_rows
    /\ a_visits = <<>>
    /\ a_perm_visits = <<>>

\* The rows of the file are written in another order.
AggPermute ==
    /\ a_pc = "input"
    /\ \E q \in RowOrders(Len(a_rows)) : a_perm' = Permute(a_rows, q)
    /\ a_pc' = "permuted"
    /\ UNCHANGED <<a_rows, a_visits, a_perm_visits, parseVars, excelVars, loadVars, reconVars, journalVars, deliverVars>>

\* Lines 35-46 on both orders.
AggAggregate ==
    /\ a_pc = "permuted"
    /\ a_visits' = Aggregate(a_rows)
    /\ a_perm_visits' = Aggregate(a_perm)
    /\ a_pc' = "done"
    /\ UNCHANGED <<a_rows, a_perm, parseVars, excelVars, loadVars, reconVars, journalVars, deliverVars>>

NextAggregate == AggPermute \/ AggAggregate

SpecAggregate == InitAggregate /\ [][NextAggregate]_vars

(***************************************************************************)
(* Reconciliation: reconcile, with load_monthly_report row by row          *)
(***************************************************************************)
\* The loader is at rest and the visits table holds `table`.
LoadedDb(table) ==
    /\ csv_file = <<>>
    /\ l_pc = "idle"
    /\ l_rows = <<>>
    /\ l_visits = <<>>
    /\ l_vi = 0
    /\ l_ii = 0
    /\ l_visit_id = 0
    /\ tx_visits = <<>>
    /\ tx_items = <<>>
    /\ db_visits = table
    /\ db_items = <<>>
    /\ uuid_issued = Len(table)
    /\ l_calls = <<>>

\* reconcile is called: the report file has been read (lines 31-53).
InitReconcile ==
    /\ ParseIdle /\ ExcelIdle /\ AggIdle /\ JournalIdle /\ DeliverIdle
    /\ \E table \in StoredTables : LoadedDb(table)
    /\ m_columns \in ReportHeaders
    /\ m_rows \in ReportFiles
    /\ m_cols = [code_col |-> None, balance_col |-> None]
    /\ m_i = 0
    /\ report = <<>>
    /\ r_period \in Periods
    /\ r_pc = "columns"
    /\ r_i = 0
    /\ discrepancies = <<>>
    /\ r_out = NoFile
    /\ r_compared = <<>>

\* Lines 55-71: find the code and balance columns, or raise ValueError.
ReportColumns ==
    /\ r_pc = "columns"
    /\ m_cols' = [code_col |-> FirstColumn(m_columns, "code"),
                  balance_col |-> FirstColumn(m_columns, "balance")]
    /\ IF FirstColumn(m_columns, "code") = None \/ FirstColumn(m_columns, "balance") = None
       THEN r_pc' = "raised" /\ m_i' = m_i
       ELSE r_pc' = "rows" /\ m_i' = 1
    /\ UNCHANGED <<m_columns, m_rows, report, r_period, r_i, discrepancies, r_out,
                   r_compared, parseVars, excelVars, loadVars, aggVars, journalVars, deliverVars>>

\* Lines 74-82: one turn of the row loop.
ReportRow ==
    /\ r_pc = "rows"
    /\ m_i <= Len(m_rows)
    /\ report' = ReportRowStep(report, m_rows[m_i])
    /\ m_i' = m_i + 1
    /\ UNCHANGED <<m_columns, m_rows, m_cols, r_period, r_pc, r_i, discrepancies, r_out,
                   r_compared, parseVars, excelVars, loadVars, aggVars, journalVars, deliverVars>>

\* Lines 83, 87-91: the report is returned and the database opened.
ReportReturn ==
    /\ r_pc = "rows"
    /\ m_i > Len(m_rows)
    /\ r_pc' = "compare"
    /\ r_i' = 1
    /\ UNCHANGED <<m_columns, m_rows, m_cols, m_i, report, r_period, discrepancies, r_out,
                   r_compared, parseVars, excelVars, loadVars, aggVars, journalVars, deliverVars>>

\* Lines 92-110: one turn of the loop over report.items().
ReconcileCode ==
    /\ r_pc = "compare"
    /\ r_i <= Len(report)
    /\ discrepancies' = Compare(discrepancies, report[r_i],
                                ActualTotal(db_visits, report[r_i].code, r_period))
    /\ r_compared' = Append(r_compared, report[r_i].code)
    /\ r_i' = r_i + 1
    /\ UNCHANGED <<m_columns, m_rows, m_cols, m_i, report, r_period, r_pc, r_out,
                   parseVars, excelVars, loadVars, aggVars, journalVars, deliverVars>>

\* Lines 111-122: close; write the discrepancies if there are any.
ReconcileWrite ==
    /\ r_pc = "compare"
    /\ r_i > Len(report)
    /\ r_out' = IF discrepancies # <<>> THEN [written |-> TRUE, rows |-> discrepancies]
                ELSE r_out
    /\ r_pc' = "done"
    /\ UNCHANGED <<m_columns, m_rows, m_cols, m_i, report, r_period, r_i, discrepancies,
                   r_compared, parseVars, excelVars, loadVars, aggVars, journalVars, deliverVars>>

NextReconcile ==
    ReportColumns \/ ReportRow \/ ReportReturn \/ ReconcileCode \/ ReconcileWrite

SpecReconcile == InitReconcile /\ [][NextReconcile]_vars

\* reconcile on an empty visits table, for reports of rows that can be
\* reordered.
InitReportOrder ==
    /\ ParseIdle /\ ExcelIdle /\ AggIdle /\ JournalIdle /\ DeliverIdle
    /\ LoadedDb(<<>>)
    /\ m_columns = <<"Client Code", "Balance">>
    /\ m_rows \in OrderFiles
    /\ m_cols = [code_col |-> None, balance_col |-> None]
    /\ m_i = 0
    /\ report = <<>>
    /\ r_period = "2025-07"
    /\ r_pc = "columns"
    /\ r_i = 0
    /\ discrepancies = <<>>
    /\ r_out = NoFile
    /\ r_compared = <<>>

SpecReportOrder == InitReportOrder /\ [][NextReconcile]_vars

(***************************************************************************)
(* Properties of the extractor                                             *)
(***************************************************************************)
\* The line as the variant's loop sees it.
Seen(raw) == IF variant = "parse_transactions" THEN Strip(raw) ELSE raw

IsHeaderLine(raw) == header_pattern(Seen(raw), variant) # <<>>

\* Index of the last header line before line i, 0 if there is none.
RECURSIVE LastHeaderBefore(_)
LastHeaderBefore(i) ==
    IF i <= 1 THEN 0
    ELSE IF IsHeaderLine(lines[i - 1]) THEN i - 1 ELSE LastHeaderBefore(i - 1)

\* C1: every emitted record comes from a line that is preceded, in the same
\* document, by at least one header-matching line; lines before the first
\* header produce no record.
C1_NoOrphanRecords ==
    /\ Len(origin) = Len(records)
    /\ \A k \in DOMAIN records :
          /\ origin[k] \in DOMAIN lines
          /\ \E j \in 1..(origin[k] - 1) : IsHeaderLine(lines[j])

\* A document that starts with a priced line, then a header, then a priced
\* line: only the second priced line is emitted.
C1_Witness ==
    /\ p_pc = "returned"
    /\ Len(lines) = 3
    /\ lines[1] = "Club Sandwich 12.50"
    /\ IsHeaderLine(lines[2])
    /\ lines[3] = "Coffee $2.50"
    /\ origin = <<3>>

\* The header's date field written out as the claim words it: century 20,
\* then month and day padded with a zero to two characters.
Pad2(t) == IF Len(t) = 1 THEN "0" \o t ELSE t

PaddedDate(date) ==
    LET a == RunLen(date, 1, Digits)
        b == RunLen(date, a + 2, Digits)
    IN  "20" \o Slice(date, a + b + 3, Len(date)) \o "-"
             \o Pad2(Slice(date, 1, a)) \o "-" \o Pad2(Slice(date, a + 2, a + 1 + b))

\* What is left of s after its first n blank-separated fields.
RECURSIVE DropFields(_, _)
DropFields(s, n) ==
    IF n = 0 THEN s
    ELSE LET t  == RunLen(s, 1, {CharAt(s, q) : q \in 1..Len(s)} \ Whitespace)
             w  == RunLen(s, t + 1, Whitespace)
         IN  DropFields(Slice(s, t + w + 1, Len(s)), n - 1)

\* The employee of a header line: everything after the reference field for
\* parse_transactions.py, the first word of it for parseTransactions.py.
HeaderEmployee(line) ==
    LET rest == DropFields(line, 4)
    IN  IF variant = "parse_transactions" THEN rest
        ELSE Slice(rest, 1, RunLen(rest, 1, {CharAt(rest, q) : q \in 1..Len(rest)} \ Whitespace))

\* C2: every record carries the client code, date, time, reference and
\* employee of the most recent header line before its own line, nothing of
\* an older header, and the date is the header's MM/DD/YY as 20YY-MM-DD
\* with month and day zero-padded.
C2_ContextOfLatestHeader ==
    \A k \in DOMAIN records :
        LET j == LastHeaderBefore(origin[k])
            g == header_pattern(Seen(lines[j]), variant)
        IN  /\ j >= 1
            /\ records[k].client_code = g.code
            /\ records[k].time = g.time
            /\ records[k].reference = g.ref
            /\ records[k].employee = HeaderEmployee(Seen(lines[j]))
            /\ records[k].date = PaddedDate(g.date)

\* The spec's example, after an older header that was superseded.
C2_Witness ==
    /\ p_pc = "returned"
    /\ lines = <<"042 12/31/24 18:30 91 bob lee", "007 7/4/25 9:05 #88 ana",
                 "Club Sandwich 12.50">>
    /\ records = <<[client_code |-> "007", date |-> "2025-07-04", time |-> "9:05",
                    reference |-> "88", employee |-> "ana",
                    description |-> "Club Sandwich", price |-> PyFloat("12.50")]>>

\* Line i is accepted: it is no header, a header precedes it, it has a
\* blank before its last word and that word is taken as a number.
Accepted(i) ==
    LET parts == RSplitSpace(Seen(lines[i]))
    IN  /\ ~IsHeaderLine(lines[i])
        /\ LastHeaderBefore(i) >= 1
        /\ Len(parts) = 2
        /\ PyFloat(CleanPrice(parts[2])) # ValueError

\* C3: the output is the accepted lines in source order, one record per
\* accepted line, never reordered and never deduplicated.
C3_SourceOrderNoDedup ==
    /\ Len(origin) = Len(records)
    /\ \A k \in DOMAIN origin : k > 1 => origin[k - 1] < origin[k]
    /\ {origin[k] : k \in DOMAIN origin} = {i \in DOMAIN lines : Accepted(i)}
    /\ \A k \in DOMAIN records :
          LET parts == RSplitSpace(Seen(lines[origin[k]]))
          IN  /\ records[k].description = Strip(parts[1])
              /\ records[k].price = PyFloat(CleanPrice(parts[2]))

\* Two identical detail lines under one header give two equal records.
C3_Witness ==
    /\ p_pc = "returned"
    /\ lines = <<"007 7/4/25 9:05 #88 ana", "Club Sandwich 12.50", "Club Sandwich 12.50">>
    /\ Len(records) = 2
    /\ records[1] = records[2]
    /\ origin = <<2, 3>>

\* A line that is no header and whose last word is not a number.
BadTrailingToken(raw) ==
    LET parts == RSplitSpace(Seen(raw))
    IN  /\ ~IsHeaderLine(raw)
        /\ Len(parts) = 2
        /\ PyFloat(CleanPrice(parts[2])) = ValueError

\* C4: reading a non-header line whose trailing token is not a number adds
\* no record, does not end the parse and leaves the header context as it
\* was; a valid detail line read with a context h, also right after such a
\* line, is emitted with the fields of h.
C4_BadLineSkipped ==
    [][ Len(lines') = Len(lines) + 1 =>
          LET raw == lines'[Len(lines')]
              parts == RSplitSpace(Seen(raw))
          IN  /\ BadTrailingToken(raw) =>
                    /\ records' = records
                    /\ header_info' = header_info
                    /\ p_pc' = "scan"
              /\ (header_info # <<>> /\ ~IsHeaderLine(raw) /\ Len(parts) = 2
                    /\ PyFloat(CleanPrice(parts[2])) # ValueError) =>
                    /\ Len(records') = Len(records) + 1
                    /\ records'[Len(records')].client_code = header_info.client_code
                    /\ records'[Len(records')].date = header_info.date
                    /\ records'[Len(records')].time = header_info.time
                    /\ records'[Len(records')].reference = header_info.reference
                    /\ records'[Len(records')].employee = header_info.employee
      ]_vars

\* A header, a line without a price, then a priced line that is emitted
\* under that header.
C4_Witness ==
    /\ p_pc = "returned"
    /\ lines = <<"007 7/4/25 9:05 #88 ana", "Merci et a bientot", "Club Sandwich 12.50">>
    /\ Len(records) = 1
    /\ records[1].client_code = "007"
    /\ records[1].description = "Club Sandwich"

\* YYYY-MM-DD: four digits, two digits, two digits.
DateShape(d) ==
    /\ Len(d) = 10
    /\ \A q \in {1, 2, 3, 4, 6, 7, 9, 10} : CharAt(d, q) \in Digits
    /\ CharAt(d, 5) = "-"
    /\ CharAt(d, 8) = "-"

\* C5: every emitted record has a date of the shape YYYY-MM-DD and a finite
\* price.
C5_DateShapeFinitePrice ==
    \A k \in DOMAIN records :
        /\ DateShape(records[k].date)
        /\ IsFinite(records[k].price)

\* The date half of C5 alone.
C5_DateShapeOnly == \A k \in DOMAIN records : DateShape(records[k].date)

(***************************************************************************)
(* Properties of the spreadsheet parser                                    *)
(***************************************************************************)
\* The price cell of a row parses as a number.
PriceCellParses(row) == PyFloat(Strip(CleanPrice(row.price))) # ValueError

\* C6: a row whose price cell cannot be parsed as a number yields no
\* record: every record comes from a row whose price cell parses (so no
\* record carries a price defaulted to zero).
C6_UnparseablePriceDropped ==
    \A k \in DOMAIN x_records : PriceCellParses(x_rows[x_origin[k]])

\* What the code does with such a row: it emits the record with price 0.0.
C6_CodeDefaultsToZero ==
    \A k \in DOMAIN x_records :
        ~PriceCellParses(x_rows[x_origin[k]]) => x_records[k].price = Fin(0)

(***************************************************************************)
(* Properties of the visit loader                                          *)
(***************************************************************************)
KeysOf(rows) == {VisitKey(rows[i]) : i \in DOMAIN rows}

\* The key columns of a visits row.
RowKey(v) == <<v.client_code, v.date, v.time, v.reference>>

\* The float sum, in input order from 0, of the prices of the rows with `key`.
RECURSIVE SumOfKey(_, _, _)
SumOfKey(rows, key, acc) ==
    IF rows = <<>> THEN acc
    ELSE SumOfKey(Tail(rows), key,
                  IF VisitKey(Head(rows)) = key
                  THEN FAdd(acc, PyFloat(Head(rows).price)) ELSE acc)

\* Positions of the committed visits rows written by the call with these ids.
VisitsOfCall(ids) == {i \in DOMAIN db_visits : db_visits[i].id \in ids}

ItemsOfCall(ids) == {i \in DOMAIN db_items : db_items[i].visit_id \in ids}

\* C7: a successful load_transactions call writes exactly one visits row per
\* distinct (client_code, date, time, reference) key of its input; that row
\* has subtotal = total = the sum (float addition in input order) of the
\* prices of the input rows with that key, and zero tax_tps, tax_tvq, tip
\* and discount.
C7_OneVisitPerKey ==
    \A c \in DOMAIN l_calls :
        l_calls[c].ok =>
            /\ \A k \in KeysOf(l_calls[c].rows) :
                  Cardinality({i \in VisitsOfCall(l_calls[c].ids) :
                                  RowKey(db_visits[i]) = k}) = 1
            /\ \A i \in VisitsOfCall(l_calls[c].ids) :
                  /\ RowKey(db_visits[i]) \in KeysOf(l_calls[c].rows)
                  /\ db_visits[i].subtotal =
                        SumOfKey(l_calls[c].rows, RowKey(db_visits[i]), Fin(0))
                  /\ db_visits[i].total = db_visits[i].subtotal
                  /\ db_visits[i].tax_tps = Fin(0)
                  /\ db_visits[i].tax_tvq = Fin(0)
                  /\ db_visits[i].tip = Fin(0)
                  /\ db_visits[i].discount = Fin(0)

\* Two rows of one key priced 10.00 and 2.50 were loaded: one visit of
\* 12.50 with two items.
C7_Witness ==
    /\ Len(l_calls) = 1
    /\ l_calls[1].ok
    /\ Len(l_calls[1].rows) = 2
    /\ VisitKey(l_calls[1].rows[1]) = VisitKey(l_calls[1].rows[2])
    /\ l_calls[1].rows[1].price = "10.00"
    /\ l_calls[1].rows[2].price = "2.50"
    /\ Len(db_visits) = 1
    /\ db_visits[1].subtotal = PyFloat("12.50")
    /\ db_visits[1].total = PyFloat("12.50")
    /\ Len(db_items) = 2

\* The tables change in this step.
TablesChange == db_visits' # db_visits \/ db_items' # db_items

\* This step ends a call with success: it commits on top of the old tables
\* one visits row per key and one visit_items row per input row.
CommitsWholeCall ==
    /\ Len(l_calls') = Len(l_calls) + 1
    /\ l_calls'[Len(l_calls')].ok
    /\ l_calls'[Len(l_calls')].rows = l_rows
    /\ Len(db_visits') = Len(db_visits) + Cardinality(KeysOf(l_rows))
    /\ Len(db_items') = Len(db_items) + Len(l_rows)
    /\ SubSeq(db_visits', 1, Len(db_visits)) = db_visits
    /\ SubSeq(db_items', 1, Len(db_items)) = db_items
    /\ \A i \in (Len(db_visits) + 1)..Len(db_visits') :
          db_visits'[i].id \in l_calls'[Len(l_calls')].ids
    /\ \A i \in (Len(db_items) + 1)..Len(db_items') :
          db_items'[i].visit_id \in l_calls'[Len(l_calls')].ids

\* Every ended call is in the tables whole or not at all, and the running
\* call not at all.
AllOrNothing ==
    /\ \A c \in DOMAIN l_calls :
          IF l_calls[c].ok
          THEN /\ Cardinality(VisitsOfCall(l_calls[c].ids)) =
                     Cardinality(KeysOf(l_calls[c].rows))
               /\ Cardinality(ItemsOfCall(l_calls[c].ids)) = Len(l_calls[c].rows)
          ELSE /\ VisitsOfCall(l_calls[c].ids) = {}
               /\ ItemsOfCall(l_calls[c].ids) = {}
    /\ l_pc # "idle" =>
          /\ VisitsOfCall(RunningIds) = {}
          /\ ItemsOfCall(RunningIds) = {}
    /\ \A i \in DOMAIN db_visits :
          \E c \in DOMAIN l_calls : l_calls[c].ok /\ db_visits[i].id \in l_calls[c].ids
    /\ \A i \in DOMAIN db_items :
          \E c \in DOMAIN l_calls : l_calls[c].ok /\ db_items[i].visit_id \in l_calls[c].ids

\* C9: the persistence step of one load_transactions call is atomic.  The
\* visits and visit_items tables change only in the step that ends a call
\* with success, which commits all of its visits and items; a call that
\* fails (a price that does not convert, a failed insert) leaves both tables
\* as they were before it; no state has a committed visit of a call without
\* all of that call's rows.
C9_AtomicLoad ==
    /\ []AllOrNothing
    /\ [][TablesChange => CommitsWholeCall]_vars
    /\ [][Len(l_calls') > Len(l_calls) /\ ~l_calls'[Len(l_calls')].ok
              => ~TablesChange]_vars

\* A batch whose second visit has a price that does not convert failed
\* after the first visit and its item had been inserted; nothing is
\* committed.
C9_Witness ==
    /\ Len(l_calls) = 1
    /\ ~l_calls[1].ok
    /\ Cardinality(l_calls[1].ids) = 2
    /\ Len(l_calls[1].rows) = 2
    /\ l_calls[1].rows[1].price = "10.00"
    /\ l_calls[1].rows[2].price = "abc"
    /\ db_visits = <<>>
    /\ db_items = <<>>

(***************************************************************************)
(* Properties of aggregation under another row order                       *)
(***************************************************************************)
\* How many times each item occurs in a visit.
ItemBag(items) ==
    [r \in {items[i] : i \in DOMAIN items} |->
        Cardinality({i \in DOMAIN items : items[i] = r})]

\* The visits as keys with their multisets of items.
VisitBags(out) == {[key |-> out[i].key, items |-> ItemBag(out[i].items)] : i \in DOMAIN out}

\* Both orders give the same visits: the same keys once each, every key with
\* the same multiset of items.
SameMembers ==
    /\ Len(a_visits) = Len(a_perm_visits)
    /\ Cardinality(VisitBags(a_visits)) = Len(a_visits)
    /\ VisitBags(a_visits) = VisitBags(a_perm_visits)
    /\ \A i \in DOMAIN a_visits :
          \A j \in DOMAIN a_visits[i].items :
              VisitKey(a_visits[i].items[j]) = a_visits[i].key
    /\ \A i \in DOMAIN a_perm_visits :
          \A j \in DOMAIN a_perm_visits[i].items :
              VisitKey(a_perm_visits[i].items[j]) = a_perm_visits[i].key

\* C8 as stated: for any permutation of the input records each visit key
\* gets the same subtotal and the same multiset of member items, and no item
\* moves to a visit of another key.
C8_SameSubtotalAnyOrder ==
    a_pc = "done" =>
        /\ SameMembers
        /\ \A i \in DOMAIN a_visits :
              \A j \in DOMAIN a_perm_visits :
                  a_visits[i].key = a_perm_visits[j].key
                      => a_visits[i].total = a_perm_visits[j].total

\* C8 (amended): for any permutation of the input records each visit key
\* gets the same multiset of member items and no item moves to a visit of
\* another key.  The subtotal is the float sum in input order: it is the
\* same for a key with at most two items, and for more items (of
\* non-negative price) the two orders differ by at most one unit in the
\* last place per addition.
C8_SameMembersAnyOrder ==
    a_pc = "done" =>
        /\ SameMembers
        /\ \A i \in DOMAIN a_visits :
              \A j \in DOMAIN a_perm_visits :
                  a_visits[i].key = a_perm_visits[j].key =>
                      /\ IsFinite(a_visits[i].total)
                      /\ IsFinite(a_perm_visits[j].total)
                      /\ Len(a_visits[i].items) <= 2
                            => a_visits[i].total = a_perm_visits[j].total
                      /\ Abs(a_visits[i].total.v - a_perm_visits[j].total.v)
                            <= (Len(a_visits[i].items) - 1)
                                 * Ulp(Abs(a_visits[i].total.v) + Abs(a_perm_visits[j].total.v))

\* Three rows of one key and a row order that changes their subtotal, the
\* members staying the same.
C8_Witness ==
    /\ a_pc = "done"
    /\ Len(a_rows) = 3
    /\ Len(a_visits) = 1
    /\ Len(a_perm_visits) = 1
    /\ a_perm # a_rows
    /\ ItemBag(a_visits[1].items) = ItemBag(a_perm_visits[1].items)
    /\ a_visits[1].total # a_perm_visits[1].total

(***************************************************************************)
(* Properties of repeated loads                                            *)
(***************************************************************************)
\* The calls that ended with success.
OkCalls == {c \in DOMAIN l_calls : l_calls[c].ok}

\* What the INSERT INTO visit_items statements of a visit write for these
\* input rows, in input order.
RECURSIVE ItemsOfKey(_, _, _)
ItemsOfKey(rows, key, id) ==
    IF rows = <<>> THEN <<>>
    ELSE IF VisitKey(Head(rows)) = key
    THEN <<[visit_id |-> id, description |-> Head(rows).description,
            price |-> PyFloat(Head(rows).price)]>> \o ItemsOfKey(Tail(rows), key, id)
    ELSE ItemsOfKey(Tail(rows), key, id)

\* The visit_items rows of one visit, in table order.
ItemsOfVisit(id) == SelectSeq(db_items, LAMBDA r : r.visit_id = id)

\* The visits rows of the first successful load.
FirstLoad == SubSeq(db_visits, 1, Cardinality(KeysOf(csv_file)))

\* The (client_code, period) pairs of the input.
ClientPeriods == {<<csv_file[i].client_code, Slice(csv_file[i].date, 1, 7)>> : i \in DOMAIN csv_file}

\* After n successful loads of the same file: n visits rows per key, ids
\* pairwise distinct, every visit with its own copy of the items.
AppendsCopies ==
    /\ \A k \in KeysOf(csv_file) :
          Cardinality({i \in DOMAIN db_visits : RowKey(db_visits[i]) = k})
              = Cardinality(OkCalls)
    /\ \A i, j \in DOMAIN db_visits : i # j => db_visits[i].id # db_visits[j].id
    /\ \A i \in DOMAIN db_visits :
          ItemsOfVisit(db_visits[i].id)
              = ItemsOfKey(csv_file, RowKey(db_visits[i]), db_visits[i].id)
    /\ Len(db_items) = Cardinality(OkCalls) * Len(csv_file)

\* C10 as stated: n loads of the same input leave, for every visit key, n
\* visits rows with pairwise distinct ids, each with its own copy of the
\* items, and the per-client sum of visits.total that reconcile reads is n
\* times the sum after a single load.
C10_SumIsNTimes ==
    (l_pc = "idle" /\ OkCalls # {}) =>
        /\ AppendsCopies
        /\ \A cp \in ClientPeriods :
              SqlSumTotal(db_visits, cp[1], cp[2], SqlNull).v
                  = Cardinality(OkCalls) * SqlSumTotal(FirstLoad, cp[1], cp[2], SqlNull).v

\* The visits rows of one load written n times over.
RECURSIVE Repeat(_, _)
Repeat(rows, n) == IF n = 0 THEN <<>> ELSE rows \o Repeat(rows, n - 1)

\* A visits row without its id.
WithoutId(v) == [f \in DOMAIN v \ {"id"} |-> v[f]]

\* C10 (amended): n loads of the same input leave, for every visit key, n
\* visits rows with pairwise distinct ids, each with its own copy of the
\* items: the visits table is the single load's rows n times over under
\* fresh ids.  The per-client sum of visits.total that reconcile reads is
\* the float sum of those totals in table order; it is n times the
\* single-load sum up to rounding (for non-negative totals, within one unit
\* in the last place per row), and exactly so for n = 1.
C10_AppendsUnderFreshIds ==
    (l_pc = "idle" /\ OkCalls # {}) =>
        /\ AppendsCopies
        /\ [i \in DOMAIN db_visits |-> WithoutId(db_visits[i])]
              = Repeat([i \in DOMAIN FirstLoad |-> WithoutId(FirstLoad[i])],
                       Cardinality(OkCalls))
        /\ \A cp \in ClientPeriods :
              /\ IsFinite(SqlSumTotal(db_visits, cp[1], cp[2], SqlNull))
              /\ Abs(SqlSumTotal(db_visits, cp[1], cp[2], SqlNull).v
                     - Cardinality(OkCalls) * SqlSumTotal(FirstLoad, cp[1], cp[2], SqlNull).v)
                    <= Len(db_visits) * Ulp(SqlSumTotal(db_visits, cp[1], cp[2], SqlNull).v)
              /\ Cardinality(OkCalls) = 1 =>
                    SqlSumTotal(db_visits, cp[1], cp[2], SqlNull)
                        = SqlSumTotal(FirstLoad, cp[1], cp[2], SqlNull)

\* Two loads of a file with two visits of one client: four visits rows, and
\* a sum that is not twice the single-load sum.
C10_Witness ==
    /\ l_pc = "idle"
    /\ Cardinality(OkCalls) = 2
    /\ Cardinality(KeysOf(csv_file)) = 2
    /\ Len(db_visits) = 4
    /\ \E cp \in ClientPeriods :
          SqlSumTotal(db_visits, cp[1], cp[2], SqlNull).v
              # 2 * SqlSumTotal(FirstLoad, cp[1], cp[2], SqlNull).v

(***************************************************************************)
(* Properties of reconciliation                                            *)
(***************************************************************************)
\* The report entries already compared with the visits table.
Compared == 1..(IF r_pc \in {"compare", "write", "done"} THEN r_i - 1 ELSE 0)

\* The discrepancies emitted for a code.
Flagged(code) == {i \in DOMAIN discrepancies : discrepancies[i].client_code = code}

\* The visits of a client whose date lies in the period YYYY-MM.
InPeriod(code, period) ==
    {i \in DOMAIN db_visits :
        /\ db_visits[i].client_code = code
        /\ Len(db_visits[i].date) = 10
        /\ Slice(db_visits[i].date, 1, 7) = period
        /\ CharAt(db_visits[i].date, 8) = "-"}

\* The float sum of their totals, in table order.
RECURSIVE SumInPeriod(_, _, _, _)
SumInPeriod(code, period, i, acc) ==
    IF i > Len(db_visits) THEN acc
    ELSE SumInPeriod(code, period, i + 1,
                     IF i \in InPeriod(code, period) THEN FAdd(acc, db_visits[i].total)
                     ELSE acc)

\* C11: a Discrepancy is emitted for a reported code if and only if
\* abs(actual - expected_balance) > 0.01, strictly: a difference of exactly
\* 0.01 in either direction is not reported, any larger one is.
C11_StrictTolerance ==
    \A i \in Compared :
        /\ Flagged(report[i].code) # {}
              <=> FGt(FAbs(FSub(SumInPeriod(report[i].code, r_period, 1, Fin(0)),
                                report[i].balance)),
                      PyFloat("0.01"))
        /\ FSub(SumInPeriod(report[i].code, r_period, 1, Fin(0)), report[i].balance)
              \in {PyFloat("0.01"), FNeg(PyFloat("0.01"))}
              => Flagged(report[i].code) = {}

\* Code 99 has 0.02 in the period against an expected 0.01: a difference of
\* exactly 0.01, not flagged.  Code 98 has nothing against 0.0101: flagged.
C11_Witness ==
    /\ r_pc = "done"
    /\ \E i \in DOMAIN report :
          /\ report[i].code = "99"
          /\ FSub(SumInPeriod("99", r_period, 1, Fin(0)), report[i].balance) = PyFloat("0.01")
          /\ Flagged("99") = {}
    /\ \E d \in DOMAIN discrepancies :
          /\ discrepancies[d].client_code = "98"
          /\ discrepancies[d].difference = FNeg(PyFloat("0.0101"))

\* C12: every emitted Discrepancy has a client_code that is a key of the
\* loaded report (a code of a report row), with at most one Discrepancy per
\* code; a code with visits in the period that is not in the report is never
\* flagged.
C12_OnlyReportedCodes ==
    /\ \A i \in DOMAIN discrepancies :
          /\ \E j \in DOMAIN report : report[j].code = discrepancies[i].client_code
          /\ \E j \in DOMAIN m_rows : Strip(m_rows[j].code) = discrepancies[i].client_code
          /\ Cardinality(Flagged(discrepancies[i].client_code)) = 1
    /\ \A v \in DOMAIN db_visits :
          (\A j \in DOMAIN m_rows : Strip(m_rows[j].code) # db_visits[v].client_code)
              => Flagged(db_visits[v].client_code) = {}

\* A client with a visit of 20.00 in the period is not in the report; the
\* run is over, a reported code is flagged and that client is not.
C12_Witness ==
    /\ r_pc = "done"
    /\ discrepancies # <<>>
    /\ \E v \in DOMAIN db_visits :
          /\ v \in InPeriod("555", r_period)
          /\ \A j \in DOMAIN report : report[j].code # "555"
          /\ Flagged("555") = {}

\* C13: for a code of the report without any visit in the period, actual is
\* 0.0: a Discrepancy with actual_total = 0 and difference =
\* -expected_balance is emitted exactly when abs(expected_balance) > 0.01.
C13_NoVisitsMeansZero ==
    \A i \in Compared :
        InPeriod(report[i].code, r_period) = {} =>
            IF FGt(FAbs(report[i].balance), PyFloat("0.01"))
            THEN \E d \in Flagged(report[i].code) :
                    /\ discrepancies[d].actual_total = Fin(0)
                    /\ discrepancies[d].expected_balance = report[i].balance
                    /\ discrepancies[d].difference = FNeg(report[i].balance)
            ELSE Flagged(report[i].code) = {}

\* Code 42 is expected at 10.0 and has no visit in the period: flagged with
\* actual 0 and difference -10.0.  Code 99 at 0.01 is not flagged.
C13_Witness ==
    /\ r_pc = "done"
    /\ db_visits = <<>>
    /\ \E d \in DOMAIN discrepancies :
          /\ discrepancies[d].client_code = "42"
          /\ discrepancies[d].actual_total = Fin(0)
          /\ discrepancies[d].difference = FNeg(PyFloat("10.0"))
    /\ \E j \in DOMAIN report : report[j].code = "99" /\ report[j].balance = PyFloat("0.01")
    /\ Flagged("99") = {}

\* C14: actual_total is the sum of visits.total over exactly the stored
\* visits with the reported client_code and a date in the period, and the
\* difference is actual_total - expected_balance.
C14_ActualIsPeriodSum ==
    \A d \in DOMAIN discrepancies :
        /\ discrepancies[d].actual_total
              = SumInPeriod(discrepancies[d].client_code, r_period, 1, Fin(0))
        /\ discrepancies[d].difference
              = FSub(discrepancies[d].actual_total, discrepancies[d].expected_balance)

\* Expected 50.0 for 007 against one visit of 12.50 in the period, with
\* visits of another period or client in the table: difference -37.5.
C14_Witness ==
    /\ r_pc = "done"
    /\ \E d \in DOMAIN discrepancies :
          /\ discrepancies[d].client_code = "007"
          /\ discrepancies[d].expected_balance = PyFloat("50.00")
          /\ discrepancies[d].actual_total = PyFloat("12.50")
          /\ discrepancies[d].difference = FNeg(PyFloat("37.50"))
    /\ Len(db_visits) = 3
    /\ Cardinality(InPeriod("007", r_period)) = 1

(***************************************************************************)
(* Column discovery of parse_excel and of load_monthly_report on one       *)
(* header                                                                  *)
(***************************************************************************)
InitColumns ==
    /\ ParseIdle /\ AggIdle /\ JournalIdle /\ DeliverIdle
    /\ LoadedDb(<<>>)
    /\ x_columns \in ColumnHeaders
    /\ x_cols = NoColumns
    /\ x_error = ""
    /\ x_desc_in_ref = FALSE
    /\ x_rows = <<>>
    /\ x_records = <<>>
    /\ x_origin = <<>>
    /\ x_pc = "columns"
    /\ m_columns = x_columns
    /\ m_rows = <<>>
    /\ m_cols = [code_col |-> None, balance_col |-> None]
    /\ m_i = 0
    /\ report = <<>>
    /\ r_period = "2025-07"
    /\ r_pc = "columns"
    /\ r_i = 0
    /\ discrepancies = <<>>
    /\ r_out = NoFile
    /\ r_compared = <<>>

NextColumns == ExcelColumns \/ ReportColumns

SpecColumns == InitColumns /\ [][NextColumns]_vars

(***************************************************************************)
(* Delivery: deliver_invoices, invoice by invoice                          *)
(***************************************************************************)
InitDeliver ==
    /\ ParseIdle /\ ExcelIdle /\ LoadIdle /\ AggIdle /\ ReconIdle /\ JournalIdle
    /\ d_env \in Environments
    /\ d_invoices \in InvoiceTables
    /\ d_files \in {{"007", "555", "042", "099"}, {"555", "042"}}
    /\ d_period = "2025-07"
    /\ d_found = <<>>
    /\ d_i = 0
    /\ d_rows = <<>>
    /\ d_manifest = NoFile
    /\ d_attempted = {}
    /\ d_pc = "start"

\* Lines 83-84: invoices = get_invoices(db_path, period); rows = [].
DeliverStart ==
    /\ d_pc = "start"
    /\ d_found' = get_invoices(d_invoices, d_period)
    /\ d_i' = 1
    /\ d_pc' = "loop"
    /\ UNCHANGED <<d_env, d_invoices, d_files, d_period, d_rows, d_manifest, d_attempted,
                   parseVars, excelVars, loadVars, aggVars, reconVars, journalVars>>

\* The state after one invoice with outcome out.
DeliverRecord(out) ==
    IF out.status = "FileNotFoundError"
    THEN /\ d_pc' = "raised"
         /\ UNCHANGED <<d_rows, d_i, d_attempted>>
    ELSE /\ d_pc' = d_pc
         /\ d_rows' = Append(d_rows,
                [client_code  |-> d_found[d_i].client_code,
                 invoice_file |-> InvoiceFile(d_found[d_i].client_code, d_period),
                 email        |-> get_client_email(d_found[d_i].client_code),
                 status       |-> out.status])
         /\ d_attempted' = IF out.attempted THEN d_attempted \cup {d_i} ELSE d_attempted
         /\ d_i' = d_i + 1

\* Lines 85-94: one turn of the loop over invoices; the SMTP server
\* accepts or refuses the message.
DeliverInvoice ==
    /\ d_pc = "loop"
    /\ d_i <= Len(d_found)
    /\ \E smtp_ok \in BOOLEAN :
          DeliverRecord(DeliverOne(d_env, d_found[d_i].client_code,
                                   d_found[d_i].client_code \in d_files, smtp_ok))
    /\ UNCHANGED <<d_env, d_invoices, d_files, d_period, d_found, d_manifest,
                   parseVars, excelVars, loadVars, aggVars, reconVars, journalVars>>

\* Lines 96-101: write the manifest.
DeliverWrite ==
    /\ d_pc = "loop"
    /\ d_i > Len(d_found)
    /\ d_manifest' = [written |-> TRUE, rows |-> d_rows]
    /\ d_pc' = "done"
    /\ UNCHANGED <<d_env, d_invoices, d_files, d_period, d_found, d_i, d_rows, d_attempted,
                   parseVars, excelVars, loadVars, aggVars, reconVars, journalVars>>

NextDeliver == DeliverStart \/ DeliverInvoice \/ DeliverWrite

SpecDeliver == InitDeliver /\ [][NextDeliver]_vars

(***************************************************************************)
(* Journal parser: a call of an attribute of txt_journal_parser            *)
(***************************************************************************)
InitJournal ==
    /\ ParseIdle /\ ExcelIdle /\ LoadIdle /\ AggIdle /\ ReconIdle /\ DeliverIdle
    /\ j_entry \in JournalCallers
    /\ j_lines \in JournalFiles
    /\ j_i = 0
    /\ current_date = None
    /\ entries = <<>>
    /\ j_origin = <<>>
    /\ j_pc = "call"
    /\ j_error = ""

\* The attribute lookup and the call: AttributeError for a name the module
\* does not define; lines 37-40 otherwise.
JournalCall ==
    /\ j_pc = "call"
    /\ IF j_entry \in ModuleFunctions
       THEN j_pc' = "lines" /\ j_i' = 1 /\ j_error' = j_error
       ELSE j_pc' = "raised" /\ j_i' = j_i /\ j_error' = "AttributeError"
    /\ UNCHANGED <<j_entry, j_lines, current_date, entries, j_origin,
                   parseVars, excelVars, loadVars, aggVars, reconVars, deliverVars>>

\* Lines 42-66: one turn of the line loop.
JournalLine ==
    /\ j_pc = "lines"
    /\ j_i <= Len(j_lines)
    /\ current_date' = JournalLineStep(current_date, entries, j_lines[j_i]).current_date
    /\ entries' = JournalLineStep(current_date, entries, j_lines[j_i]).entries
    /\ j_origin' = IF Len(JournalLineStep(current_date, entries, j_lines[j_i]).entries)
                        > Len(entries)
                    THEN Append(j_origin, j_i) ELSE j_origin
    /\ j_i' = j_i + 1
    /\ UNCHANGED <<j_entry, j_lines, j_pc, j_error,
                   parseVars, excelVars, loadVars, aggVars, reconVars, deliverVars>>

\* Lines 72-74: raise when entries is empty, return entries otherwise.
JournalReturn ==
    /\ j_pc = "lines"
    /\ j_i > Len(j_lines)
    /\ IF entries = <<>>
       THEN j_pc' = "raised" /\ j_error' = "ValueError"
       ELSE j_pc' = "returned" /\ j_error' = j_error
    /\ UNCHANGED <<j_entry, j_lines, j_i, current_date, entries, j_origin,
                   parseVars, excelVars, loadVars, aggVars, reconVars, deliverVars>>

NextJournal == JournalCall \/ JournalLine \/ JournalReturn

SpecJournal == InitJournal /\ [][NextJournal]_vars

(***************************************************************************)
(* Properties of load_monthly_report                                       *)
(***************************************************************************)
\* load_monthly_report has returned.
ReportLoaded == r_pc \in {"compare", "write", "done"}

\* The codes of the rows that have one.
RowCodes(rows) ==
    {Strip(rows[i].code) : i \in {j \in DOMAIN rows :
        Strip(rows[j].code) # "" /\ Lower(Strip(rows[j].code)) # "nan"}}

\* The rows of a code whose balance float() accepts.
AcceptedRows(rows, code) ==
    {i \in DOMAIN rows : Strip(rows[i].code) = code
                          /\ ReportBalance(rows[i].balance) # ValueError}

\* The float sum, in row order from 0.0, of the accepted balances of a code.
RECURSIVE SumRows(_, _, _, _)
SumRows(rows, code, i, acc) ==
    IF i > Len(rows) THEN acc
    ELSE SumRows(rows, code, i + 1,
                 IF i \in AcceptedRows(rows, code)
                 THEN FAdd(acc, ReportBalance(rows[i].balance)) ELSE acc)

\* The codes of a report.
ReportCodes(rep) == {rep[i].code : i \in DOMAIN rep}

\* load_monthly_report has just returned.
ReportReturned == r_pc = "compare" /\ r_i = 1

\* Two reports have the same codes and the same balance for every code.
SameReport(rep, other) ==
    /\ ReportCodes(other) = ReportCodes(rep)
    /\ \A code \in ReportCodes(rep) : ReportGet(other, code) = ReportGet(rep, code)

\* Two reports of the same rows in two orders have the same codes, the same
\* balance for a code with at most two accepted rows, and finite balances
\* within one unit in the last place per addition otherwise.
SameUpToRounding(rows, rep, other) ==
    /\ ReportCodes(other) = ReportCodes(rep)
    /\ \A code \in ReportCodes(rep) :
          /\ IsFinite(ReportGet(rep, code))
          /\ IsFinite(ReportGet(other, code))
          /\ Cardinality(AcceptedRows(rows, code)) <= 2
                => ReportGet(other, code) = ReportGet(rep, code)
          /\ Abs(ReportGet(other, code).v - ReportGet(rep, code).v)
                <= (Cardinality(AcceptedRows(rows, code)) - 1)
                     * Ulp(ReportGet(other, code).v + ReportGet(rep, code).v)

\* C15 as stated: repeated codes accumulate by summation, never by
\* overwrite, and for every code expected_balance is the sum of the balances
\* of its rows whatever the order of the rows.
C15_SumAnyRowOrder ==
    /\ ReportLoaded =>
          \A code \in ReportCodes(report) :
              ReportGet(report, code) = SumRows(m_rows, code, 1, Fin(0))
    /\ ReportReturned =>
          \A q \in RowOrders(Len(m_rows)) :
              SameReport(report, LoadReport(Permute(m_rows, q), <<>>))

\* C15 (amended): repeated codes accumulate by summation, never by
\* overwrite: for every code, expected_balance is the float sum, in row
\* order, of the balances of its rows that float() accepts.  Another row
\* order gives the same codes, the same balance for a code with at most two
\* such rows, and for more rows (of non-negative balance) a balance within
\* one unit in the last place per addition.
C15_SumInRowOrder ==
    /\ ReportLoaded =>
          /\ ReportCodes(report)
                = {code \in RowCodes(m_rows) : AcceptedRows(m_rows, code) # {}}
          /\ \A i, j \in DOMAIN report : report[i].code = report[j].code => i = j
          /\ \A code \in ReportCodes(report) :
                ReportGet(report, code) = SumRows(m_rows, code, 1, Fin(0))
    /\ ReportReturned =>
          \A q \in RowOrders(Len(m_rows)) :
              SameUpToRounding(m_rows, report, LoadReport(Permute(m_rows, q), <<>>))

\* Rows ('42', 10.0) and ('42', 5.0) were loaded: one entry of 15.0.
C15_Witness ==
    /\ ReportLoaded
    /\ Len(m_rows) = 2
    /\ m_rows[1] = [code |-> "42", balance |-> "10.0"]
    /\ m_rows[2] = [code |-> "42", balance |-> "5.0"]
    /\ report = <<[code |-> "42", balance |-> PyFloat("15.00")]>>

\* The float sum, in row order from 0.0, of the balances of a code, a balance
\* that is no number counting as 0.
RECURSIVE SumRowsOrZero(_, _, _, _)
SumRowsOrZero(rows, code, i, acc) ==
    IF i > Len(rows) THEN acc
    ELSE SumRowsOrZero(rows, code, i + 1,
                       IF /\ Strip(rows[i].code) = code
                          /\ ReportBalance(rows[i].balance) # ValueError
                          /\ IsFinite(ReportBalance(rows[i].balance))
                       THEN FAdd(acc, ReportBalance(rows[i].balance)) ELSE acc)

\* C16 as stated: a row whose balance cell is no number (an empty or missing
\* cell included) is not fatal and contributes zero: the load returns, every
\* code of a row has the expected_balance it would have were that cell 0, and
\* the code is compared against the database.
C16_UnparsedCountsZero ==
    /\ (r_pc = "raised") => (FirstColumn(m_columns, "code") = None
                             \/ FirstColumn(m_columns, "balance") = None)
    /\ ReportLoaded =>
          \A code \in RowCodes(m_rows) :
              /\ code \in ReportCodes(report)
              /\ ReportGet(report, code) = SumRowsOrZero(m_rows, code, 1, Fin(0))
    /\ (r_pc = "done") =>
          \A code \in RowCodes(m_rows) : code \in {r_compared[i].code : i \in DOMAIN r_compared}

\* What the code does with such a cell: text that float() rejects adds
\* nothing and does not enter the code in the report; an empty cell reads
\* 'nan', which float() accepts, and makes the code's balance NaN.
C16_CodeSkipsOrAddsNaN ==
    ReportLoaded =>
        /\ ReportCodes(report) = {code \in RowCodes(m_rows) : AcceptedRows(m_rows, code) # {}}
        /\ \A code \in ReportCodes(report) :
              /\ ReportGet(report, code) = SumRows(m_rows, code, 1, Fin(0))
              /\ (\E i \in AcceptedRows(m_rows, code) : Lower(Strip(m_rows[i].balance)) = "nan")
                    => ReportGet(report, code) = NaN

\* No column of the report has a code-like name.
NoCodeLike(columns) ==
    \A j \in DOMAIN columns :
        /\ ~Contains(Lower(Strip(columns[j])), "code")
        /\ ~Contains(Lower(Strip(columns[j])), "client")

\* No column of the report has a balance-like name.
NoBalanceLike(columns) ==
    \A j \in DOMAIN columns :
        /\ ~StartsWith(Lower(Strip(columns[j])), "balance")
        /\ ~StartsWith(Lower(Strip(columns[j])), "owed")
        /\ ~StartsWith(Lower(Strip(columns[j])), "total")
        /\ ~Contains(Lower(Strip(columns[j])), "amount")

\* C17: when the report has no code-like column or no balance-like column,
\* reconcile raises: it never reads a row, compares no code against the
\* database, produces no discrepancy and writes no output file.
C17_MissingColumnsFatal ==
    (NoCodeLike(m_columns) \/ NoBalanceLike(m_columns)) =>
        /\ r_pc \in {"columns", "raised"}
        /\ (r_pc = "columns") => (m_cols = [code_col |-> None, balance_col |-> None])
        /\ m_i = 0
        /\ report = <<>>
        /\ r_compared = <<>>
        /\ discrepancies = <<>>
        /\ r_out = NoFile

\* reconcile has raised on a report with rows but no code-like column, over
\* a database with visits.
C17_Witness ==
    /\ r_pc = "raised"
    /\ m_columns = <<"Name", "Balance">>
    /\ Len(m_rows) = MaxReportRows
    /\ Len(db_visits) > 0

(***************************************************************************)
(* Properties of parse_excel's column discovery                            *)
(***************************************************************************)
\* No column of the sheet has a name containing one of the keywords.
NoColumnFor(keywords) ==
    \A j \in DOMAIN x_columns : \A kw \in keywords :
        ~Contains(NormaliseColumn(x_columns[j]), kw)

\* The names of the mandatory fields without a column, in the order
\* client code, date, time, reference, employee, price.
MissingFields ==
    (IF NoColumnFor({"client_code", "code", "client"}) THEN <<"client code">> ELSE <<>>)
    \o (IF NoColumnFor({"date", "transaction_date"}) THEN <<"date">> ELSE <<>>)
    \o (IF NoColumnFor({"time", "transaction_time"}) THEN <<"time">> ELSE <<>>)
    \o (IF NoColumnFor({"reference", "ref", "#"}) THEN <<"reference">> ELSE <<>>)
    \o (IF NoColumnFor({"employee", "server"}) THEN <<"employee">> ELSE <<>>)
    \o (IF NoColumnFor({"price", "amount", "total", "unnamed:_6"}) THEN <<"price">> ELSE <<>>)

\* C18: when a mandatory field (client code, date, time, reference,
\* employee, price) has no column, parse_excel raises one error whose message
\* lists exactly the missing fields, reads no row and emits no record; when
\* only the description column is missing it raises nothing.
C18_MissingColumnsFatal ==
    /\ MissingFields # <<>> =>
          /\ x_pc \in {"columns", "raised"}
          /\ x_rows = <<>>
          /\ x_records = <<>>
          /\ (x_pc = "columns") => (x_error = "")
          /\ (x_pc = "raised") =>
                (x_error = "Missing expected columns: " \o JoinComma(MissingFields))
    /\ MissingFields = <<>> =>
          /\ x_pc # "raised"
          /\ x_error = ""
          /\ (x_pc # "columns" /\ NoColumnFor({"description", "item", "detail"}))
                => (x_desc_in_ref /\ x_cols.desc_col = None)

\* parse_excel has raised on a sheet without time and employee columns.
C18_Witness ==
    /\ x_pc = "raised"
    /\ x_columns = <<"Client Code", "Date", "Reference", "Description", "Price">>
    /\ x_error = "Missing expected columns: time, employee"

\* parse_excel has emitted a record from a sheet without description column.
C18_WitnessNoDescription ==
    /\ x_pc = "returned"
    /\ x_columns = <<"Client Code", "Date", "Time", "Reference", "Employee", "Unnamed: 6">>
    /\ Len(x_records) > 0

(***************************************************************************)
(* Properties of the journal parser                                        *)
(***************************************************************************)
\* The call has ended, by a return or by an exception.
JournalEnded == j_pc \in {"returned", "raised"}

\* C19 as stated, for the journal parser: parse_journal_entries over a
\* readable file ends by returning its entries, an empty sequence when the
\* file has no extractable record; it raises nothing.
C19_NoRecordsReturnsEmpty ==
    (j_entry = "parse_journal_entries" /\ JournalEnded) =>
        /\ j_pc = "returned"
        /\ j_error = ""

\* What the code does: the call raises ValueError exactly when no entry was
\* extracted, and returns a non-empty list otherwise.
C19_CodeRaisesWhenEmpty ==
    (j_entry = "parse_journal_entries" /\ JournalEnded) =>
        /\ (entries = <<>>) <=> (j_pc = "raised" /\ j_error = "ValueError")
        /\ (entries # <<>>) <=> (j_pc = "returned" /\ j_error = "")

\* Line i is a date header: its first comma-separated field is a date
\* MM-DD-YY.
IsDateHeader(i) ==
    /\ Strip(j_lines[i]) # ""
    /\ strptime(JournalParts(Strip(j_lines[i]))[1]) # ValueError

\* The most recent date header before line i, 0 if none.
LastHeader(i) ==
    IF \E h \in 1..(i - 1) : IsDateHeader(h)
    THEN CHOOSE h \in 1..(i - 1) : IsDateHeader(h) /\ \A g \in (h + 1)..(i - 1) : ~IsDateHeader(g)
    ELSE 0

\* Line i is an account-1105 line with a numeric second field.
IsAccountLine(i) ==
    /\ Strip(j_lines[i]) # ""
    /\ ~IsDateHeader(i)
    /\ Len(JournalParts(Strip(j_lines[i]))) >= 2
    /\ JournalParts(Strip(j_lines[i]))[1] = "1105"
    /\ PyFloat(JournalParts(Strip(j_lines[i]))[2]) # ValueError

\* The lines that yield a record.
RecordLines == {i \in DOMAIN j_lines : IsAccountLine(i) /\ LastHeader(i) # 0}

\* The records of a journal file are one per account-1105 line after a date
\* header, in file order, dated by the most recent header.
JournalRecordsAsClaimed ==
    /\ Len(entries) = Cardinality(RecordLines)
    /\ {j_origin[k] : k \in DOMAIN j_origin} = RecordLines
    /\ \A k \in DOMAIN entries :
          /\ k > 1 => j_origin[k - 1] < j_origin[k]
          /\ entries[k].account = "1105"
          /\ entries[k].amount = PyFloat(JournalParts(Strip(j_lines[j_origin[k]]))[2])
          /\ entries[k].date
                = strftime(strptime(JournalParts(Strip(j_lines[LastHeader(j_origin[k])]))[1]))

\* C20 as stated: txt_journal_parser.parse_journal_file returns, for a
\* journal file, one record per account-1105 line that follows a date header,
\* in file order, with the date of the most recent header as YYYY-MM-DD,
\* account '1105' and the second field as amount; '08-05-25' then
\* '1105, 31.85' gives one record {2025-08-05, 1105, 31.85}.
C20_ParseJournalFileReturnsRecords ==
    (j_entry = "parse_journal_file" /\ j_pc # "call") =>
        /\ JournalEnded => j_pc = "returned"
        /\ JournalEnded => JournalRecordsAsClaimed
        /\ (JournalEnded /\ j_lines = <<"08-05-25", "1105, 31.85">>) =>
              entries = <<[date |-> "2025-08-05", account |-> "1105",
                           amount |-> PyFloat("31.85")]>>

\* What the code does: parse_journal_file is no attribute of the module, and
\* the call ends in AttributeError before any line is read.
C20_CodeHasNoParseJournalFile ==
    (j_entry = "parse_journal_file" /\ j_pc # "call") =>
        /\ j_pc = "raised"
        /\ j_error = "AttributeError"
        /\ entries = <<>>

\* The records the claim describes are the ones parse_journal_entries holds
\* at the end of its line loop.
C20_EntriesAsClaimed ==
    (j_entry = "parse_journal_entries" /\ JournalEnded) => JournalRecordsAsClaimed

(***************************************************************************)
(* Properties of the time field                                            *)
(***************************************************************************)
\* HH:MM: two digits, a colon, two digits.
TimeShape(t) ==
    /\ Len(t) = 5
    /\ CharAt(t, 1) \in Digits /\ CharAt(t, 2) \in Digits
    /\ CharAt(t, 3) = ":"
    /\ CharAt(t, 4) \in Digits /\ CharAt(t, 5) \in Digits

\* C21 as stated, for the PDF/text extractor: the time of every record is
\* empty or a two-digit-hour HH:MM string.
C21_TimeIsHHMM ==
    \A k \in DOMAIN records : records[k].time = "" \/ TimeShape(records[k].time)

\* C21 as stated, for the spreadsheet parser: the time of every record is
\* empty or a two-digit-hour HH:MM string, whatever the kind of the cell.
C21_ExcelTimeIsHHMM ==
    \A k \in DOMAIN x_records : x_records[k].time = "" \/ TimeShape(x_records[k].time)

\* What the extractor does: the time of a record is the text the header
\* pattern matched, one or two digits, a colon, two digits, unpadded.
C21_CodeKeepsHeaderTime ==
    \A k \in DOMAIN records :
        \/ TimeShape(records[k].time)
        \/ TimeShape("0" \o records[k].time)

\* What the spreadsheet parser does: datetime and numeric cells give HH:MM,
\* a missing cell gives '', any other cell gives its stripped text.
C21_CodeKeepsCellText ==
    \A k \in DOMAIN x_records :
        \/ x_rows[x_origin[k]].time.t \in {"datetime", "number"}
              /\ TimeShape(x_records[k].time)
        \/ x_rows[x_origin[k]].time.t = "nan" /\ x_records[k].time = ""
        \/ x_rows[x_origin[k]].time.t = "str"
              /\ x_records[k].time = Strip(x_rows[x_origin[k]].time.s)

(***************************************************************************)
(* Properties of deliver_invoices                                          *)
(***************************************************************************)
\* The rows of the invoices table that belong to the period, in table order.
PeriodInvoices ==
    SelectSeq(d_invoices,
              LAMBDA inv : /\ Len(inv.period_start) = 10
                           /\ SubSeq(inv.period_start, 1, 8) = d_period \o "-")

\* The credentials are all provided.
CredentialsProvided ==
    \A name \in {"SMTP_HOST", "SMTP_PORT", "SMTP_USER", "SMTP_PASS", "SENDER"} : name \in d_env

\* C22 as stated: a call of deliver_invoices that returns has written a
\* manifest of exactly one row per invoice of the period; without all the SMTP credentials every
\* row has status SKIPPED, with or without email address; SENT or FAILED is
\* recorded only for an invoice a send was attempted for.
C22_SkippedWithoutCredentials ==
    /\ (d_pc = "done") =>
          /\ d_manifest.written
          /\ Len(d_manifest.rows) = Len(PeriodInvoices)
          /\ \A k \in DOMAIN d_manifest.rows :
                d_manifest.rows[k].client_code = PeriodInvoices[k].client_code
          /\ ~CredentialsProvided =>
                \A k \in DOMAIN d_manifest.rows : d_manifest.rows[k].status = "SKIPPED"
    /\ \A k \in DOMAIN d_rows :
          /\ d_rows[k].status \in {"SKIPPED", "SENT", "FAILED"}
          /\ d_rows[k].status \in {"SENT", "FAILED"} => k \in d_attempted

\* What the code does: the status is SKIPPED exactly for a client without
\* email address; for a client with one it is FAILED when the credentials
\* are incomplete, no send being attempted; and a missing invoice file ends
\* the call without manifest when the credentials are complete.
C22_CodeFailsWithoutCredentials ==
    /\ \A k \in DOMAIN d_rows :
          /\ (d_rows[k].status = "SKIPPED") <=> (d_rows[k].email = "")
          /\ (d_rows[k].email # "" /\ ~CredentialsProvided)
                => (d_rows[k].status = "FAILED" /\ k \notin d_attempted)
          /\ (d_rows[k].status = "SENT") => (k \in d_attempted /\ CredentialsProvided)
    /\ (d_pc = "done") =>
          /\ d_manifest.written
          /\ Len(d_manifest.rows) = Len(PeriodInvoices)
    /\ (d_pc = "raised") =>
          /\ CredentialsProvided
          /\ ~d_manifest.written
          /\ d_found[d_i].client_code \notin d_files

(***************************************************************************)
(* Properties of column discovery                                          *)
(***************************************************************************)
\* The keywords of the fields of parse_excel, in the order of the code.
FieldKeywords ==
    [code_col      |-> <<"client_code", "code", "client">>,
     date_col      |-> <<"date", "transaction_date">>,
     time_col      |-> <<"time", "transaction_time">>,
     reference_col |-> <<"reference", "ref", "#">>,
     employee_col  |-> <<"employee", "server">>,
     desc_col      |-> <<"description", "item", "detail">>,
     price_col     |-> <<"price", "amount", "total", "unnamed:_6">>]

\* The normalised name of column j of the sheet.
SheetColumn(j) == ReplaceChar(Lower(Strip(x_columns[j])), " ", "_")

\* Column j contains one of the keywords.
MatchesAny(j, keywords) == \E a \in DOMAIN keywords : Contains(SheetColumn(j), keywords[a])

\* col is the first column in sheet order that contains any of the
\* keywords, None when there is none.
IsFirstMatching(col, keywords) ==
    IF \E j \in DOMAIN x_columns : MatchesAny(j, keywords)
    THEN \E j \in DOMAIN x_columns :
            /\ col = SheetColumn(j)
            /\ MatchesAny(j, keywords)
            /\ \A h \in 1..(j - 1) : ~MatchesAny(h, keywords)
    ELSE col = None

\* col is the first column in sheet order that contains the first of the
\* keywords, in keyword order, that any column contains; None when there is
\* none.
IsFirstOfBestKeyword(col, keywords) ==
    IF \E j \in DOMAIN x_columns : MatchesAny(j, keywords)
    THEN \E a \in DOMAIN keywords : \E j \in DOMAIN x_columns :
            /\ col = SheetColumn(j)
            /\ Contains(SheetColumn(j), keywords[a])
            /\ \A h \in 1..(j - 1) : ~Contains(SheetColumn(h), keywords[a])
            /\ \A b \in 1..(a - 1) : \A h \in DOMAIN x_columns :
                    ~Contains(SheetColumn(h), keywords[b])
    ELSE col = None

\* The column load_monthly_report has chosen for each field is the first in
\* sheet order that matches the field's patterns.
ReportFirstMatching ==
    (r_pc # "columns") =>
        /\ IsFirstMatching(m_cols.code_col, <<"code", "client">>)
        /\ IF \E j \in DOMAIN m_columns : IsBalanceColumn(SheetColumn(j))
           THEN \E j \in DOMAIN m_columns :
                    /\ m_cols.balance_col = SheetColumn(j)
                    /\ IsBalanceColumn(SheetColumn(j))
                    /\ \A h \in 1..(j - 1) : ~IsBalanceColumn(SheetColumn(h))
           ELSE m_cols.balance_col = None

\* C23 as stated: for each field, find_column and the column loop of
\* load_monthly_report pick the first column in sheet order whose normalised
\* name contains any of the field's keywords, whichever keyword it matched.
C23_FirstColumnWins ==
    /\ (x_pc # "columns") =>
          \A f \in DOMAIN FieldKeywords : IsFirstMatching(x_cols[f], FieldKeywords[f])
    /\ ReportFirstMatching

\* C23 (amended): find_column picks, for each field, the first keyword in
\* the field's keyword order that some column contains, and the first column
\* in sheet order containing that keyword, so a column of an earlier keyword
\* wins over an earlier column of a later keyword; the column loop of
\* load_monthly_report picks the first column in sheet order that matches.
C23_BestKeywordThenFirstColumn ==
    /\ (x_pc # "columns") =>
          \A f \in DOMAIN FieldKeywords : IsFirstOfBestKeyword(x_cols[f], FieldKeywords[f])
    /\ ReportFirstMatching

\* Both discoveries have run on a sheet with 'Client' before 'Client Code'
\* and 'Total' before 'Price': parse_excel took the later columns,
\* load_monthly_report the earlier ones.
C23_Witness ==
    /\ x_columns = <<"Client", "Client Code", "Total">>
    /\ x_pc = "raised"
    /\ x_cols.code_col = "client_code"
    /\ x_cols.price_col = "total"
    /\ r_pc = "rows"
    /\ m_cols = [code_col |-> "client", balance_col |-> "total"]

(***************************************************************************)
(* Properties of the visit items and of the visit employee                 *)
(***************************************************************************)
\* Item i was written for a record like row: same description and price,
\* under a visit of the same call that has the key of row.
ItemOfRecord(i, row, ids) ==
    /\ db_items[i].description = row.description
    /\ db_items[i].price = PyFloat(row.price)
    /\ \E v \in VisitsOfCall(ids) :
          /\ db_visits[v].id = db_items[i].visit_id
          /\ RowKey(db_visits[v]) = VisitKey(row)

\* The rows of a file that are like row in key, description and price.
RecordsLike(rows, row) ==
    {q \in DOMAIN rows : /\ VisitKey(rows[q]) = VisitKey(row)
                         /\ rows[q].description = row.description
                         /\ PyFloat(rows[q].price) = PyFloat(row.price)}

\* The float sum, in rowid order from 0, of the prices of the items of a
\* visit.
RECURSIVE SumItemsOf(_, _, _)
SumItemsOf(items, id, acc) ==
    IF items = <<>> THEN acc
    ELSE SumItemsOf(Tail(items), id,
                    IF Head(items).visit_id = id THEN FAdd(acc, Head(items).price) ELSE acc)

\* C24: a successful load_transactions call writes exactly one visit_items
\* row per input record, with the record's description and price, under the
\* visit the same call created for the record's key; after any sequence of
\* loads every visit_items.visit_id is the id of exactly one visits row, the
\* items of a visit sum to its subtotal, and a call writes as many items as
\* it read rows.
C24_OneItemPerRecord ==
    /\ \A c \in DOMAIN l_calls :
          l_calls[c].ok =>
              /\ Cardinality(ItemsOfCall(l_calls[c].ids)) = Len(l_calls[c].rows)
              /\ \A r \in DOMAIN l_calls[c].rows :
                    Cardinality({i \in ItemsOfCall(l_calls[c].ids) :
                                    ItemOfRecord(i, l_calls[c].rows[r], l_calls[c].ids)})
                        = Cardinality(RecordsLike(l_calls[c].rows, l_calls[c].rows[r]))
    /\ \A i \in DOMAIN db_items :
          Cardinality({v \in DOMAIN db_visits : db_visits[v].id = db_items[i].visit_id}) = 1
    /\ \A v \in DOMAIN db_visits :
          db_visits[v].subtotal = SumItemsOf(db_items, db_visits[v].id, Fin(0))

\* Two loads of a file with two records of different visits have committed:
\* four items under four visits.
C24_Witness ==
    /\ Len(l_calls) = 2
    /\ l_calls[1].ok /\ l_calls[2].ok
    /\ Len(csv_file) = 2
    /\ VisitKey(csv_file[1]) # VisitKey(csv_file[2])
    /\ Len(db_items) = 4
    /\ Len(db_visits) = 4
    /\ db_items[4].visit_id = db_visits[4].id
    /\ db_items[4].description = csv_file[2].description

\* Position of the first row of a file with the key of a visit.
FirstOfKey(rows, key) ==
    CHOOSE q \in DOMAIN rows :
        VisitKey(rows[q]) = key /\ \A h \in 1..(q - 1) : VisitKey(rows[h]) # key

\* C25: the employee stored on a visit is the employee of the first input
\* record, in input order, with the visit's key, also when a later record of
\* the key has another employee; the empty string when that first record has
\* no employee field.
C25_EmployeeOfFirstRecord ==
    \A c \in DOMAIN l_calls :
        l_calls[c].ok =>
            \A v \in VisitsOfCall(l_calls[c].ids) :
                db_visits[v].employee =
                    IF "employee" \in DOMAIN
                          l_calls[c].rows[FirstOfKey(l_calls[c].rows, RowKey(db_visits[v]))]
                    THEN l_calls[c].rows[FirstOfKey(l_calls[c].rows, RowKey(db_visits[v]))].employee
                    ELSE ""

\* A visit whose first record is by ana and second by bob was loaded: the
\* visit is ana's.
C25_Witness ==
    /\ Len(l_calls) = 1
    /\ l_calls[1].ok
    /\ Len(l_calls[1].rows) = 2
    /\ VisitKey(l_calls[1].rows[1]) = VisitKey(l_calls[1].rows[2])
    /\ RowEmployee(l_calls[1].rows[1]) = "ana"
    /\ RowEmployee(l_calls[1].rows[2]) = "bob"
    /\ Len(db_visits) = 1
    /\ db_visits[1].employee = "ana"

\* A visit whose first record has no employee field was loaded: the visit's
\* employee is the empty string.
C25_WitnessNoEmployee ==
    /\ Len(l_calls) = 1
    /\ l_calls[1].ok
    /\ Len(l_calls[1].rows) >= 1
    /\ "employee" \notin DOMAIN l_calls[1].rows[1]
    /\ Len(db_visits) = 1
    /\ db_visits[1].employee = ""

(***************************************************************************)
(* Properties of the detail lines of the extractor                         *)
(***************************************************************************)
\* Position of the last blank of s, 0 if s has none.
LastBlank(s) ==
    IF \E p \in 1..Len(s) : CharAt(s, p) = " "
    THEN CHOOSE p \in 1..Len(s) :
             CharAt(s, p) = " " /\ \A q \in (p + 1)..Len(s) : CharAt(s, q) # " "
    ELSE 0

\* float() of a token once '$' and ',' are removed.
NumberOf(token) == PyFloat(RemoveChar(RemoveChar(token, "$"), ","))

\* The four conditions under which a line yields a record: h is the header
\* context, p the position of the last blank of the line and num the number
\* of its last token.
YieldsRecord(h, isHeader, p, num) ==
    /\ h # <<>>
    /\ ~isHeader
    /\ p > 0
    /\ num # ValueError

\* recs2 is recs with one more record of description desc and price num.
OneMoreRecord(recs, recs2, desc, num) ==
    /\ Len(recs2) = Len(recs) + 1
    /\ SubSeq(recs2, 1, Len(recs)) = recs
    /\ recs2[Len(recs2)].description = desc
    /\ recs2[Len(recs2)].price = num

\* The effect on the records of a line s with last blank p and last token
\* number num, read with context h.
RecordIff(h, s, p, num, recs, recs2) ==
    IF YieldsRecord(h, header_pattern(s, variant) # <<>>, p, num)
    THEN OneMoreRecord(recs, recs2, Strip(Slice(s, 1, p - 1)), num)
    ELSE recs2 = recs

LineRecordIff(h, s, p, recs, recs2) ==
    RecordIff(h, s, p, NumberOf(Slice(s, p + 1, Len(s))), recs, recs2)

\* C26: reading a line appends one record if and only if a header context is
\* active, the line is no header, it has a blank separating a description
\* from a last token, and that token without '$' and ',' is accepted by
\* float(); the record has the text before the last blank, stripped, as
\* description and the number as price; otherwise the records are unchanged.
\* So 'Page 2' after a header is a record and a single token never is.
C26_RecordIffPricedDetail ==
    [][ Len(lines') = Len(lines) + 1 =>
          LineRecordIff(header_info, Seen(lines'[Len(lines')]),
                        LastBlank(Seen(lines'[Len(lines')])), records, records')
      ]_vars

\* A header, then 'Page 2', which became a record of the visit with price 2,
\* then the single token '12.50', which did not.
C26_Witness ==
    /\ p_pc = "returned"
    /\ lines = <<"007 7/4/25 9:05 #88 ana", "Page 2", "12.50">>
    /\ Len(records) = 1
    /\ origin = <<2>>
    /\ records[1].reference = "88"
    /\ records[1].description = "Page"
    /\ records[1].price = PyFloat("2")

====
